---- MODULE Spec2Model ----
(***************************************************************************)
(* Model of the graphchat backend: the per-session WebSocket fan-out hub   *)
(* (backend/api/websocket/connection_manager.py), the WebSocket endpoint   *)
(* that runs chat turns (backend/api/endpoints/websocket.py) and the parts *)
(* of the chat / message / node services those turns call.                  *)
(*                                                                         *)
(* Every WebSocket connection is served by one coroutine                   *)
(* (websocket_endpoint).  The coroutines are interleaved at their awaits:  *)
(* receive_text, send_json, the LLM calls and the store calls.              *)
(***************************************************************************)
EXTENDS Integers, Sequences, FiniteSets, TLC

(***************************************************************************)
(* Bounds of the model.                                                    *)
(***************************************************************************)
MaxChats == 1        \* chat frames accepted over all connections
MaxUpdates == 1      \* node_update frames accepted over all connections
MaxChunks == 2       \* chunks the provider stream yields at most
MockChunks == 1      \* chunks of the fallback stream (abstracts len(mock_text))
MaxRecs == 1         \* branches one analysis returns at most

Sinks == {"w1", "w2"}
Sessions == {"s1"}
NoSink == "none"
NoNode == "none"
RefIds == <<"r1", "r2", "r3", "r4">>

VARIABLES
    active_connections,  \* ConnectionManager.active_connections: session -> list of sinks
    connection_sessions, \* ConnectionManager.connection_sessions: sink -> session
    roomGen,             \* identity of the list object stored under a session key
    clientOpen,          \* the peer of the socket is still there
    client_state,        \* WebSocket.client_state
    pc,                  \* position of each websocket_endpoint coroutine
    loc,                 \* locals of the frame being handled by each coroutine
    bc,                  \* the broadcast call each coroutine is in
    log,                 \* frames each client has received, in order, per originating frame
    nodes,               \* Node vertices of the store
    messages,            \* Message vertices of the store (with their HAS_MESSAGE node)
    recs,                \* BranchRecommendation vertices of the store
    sessions,            \* Session vertices of the store: id -> root_node_id
    clock,               \* datetime.now / uuid4 source
    chats,               \* chat frames accepted so far
    updates,             \* node_update frames accepted so far
    replies,             \* replies of the REST delete requests served so far, in order
    tasks                \* background tasks started with asyncio.create_task: node id -> state

vars == <<active_connections, connection_sessions, roomGen, clientOpen, client_state,
          pc, loc, bc, log, nodes, messages, recs, sessions, clock, chats, updates, replies, tasks>>

hubVars == <<active_connections, connection_sessions, roomGen>>
storeVars == <<nodes, messages, recs, sessions, clock>>
frameVars == <<chats, updates, replies, tasks>>
Ops == 0..(MaxChats + MaxUpdates)

(***************************************************************************)
(* Events (frames sent to clients).  One record shape for all of them.     *)
(***************************************************************************)
Ev(type, op, seq, node) ==
    [type |-> type, op |-> op, seq |-> seq, node |-> node,
     chunk |-> 0, csrc |-> "", src |-> NoNode, tgt |-> NoNode, msg |-> 0, err |-> FALSE,
     recs |-> <<>>]

SessionOf(w) == "s1"

(***************************************************************************)
(* ConnectionManager                                                       *)
(***************************************************************************)
Hub == [ac |-> active_connections, cs |-> connection_sessions, gen |-> roomGen]

RECURSIVE RemoveFirst(_, _)
RemoveFirst(list, x) ==
    IF list = <<>> THEN <<>>
    ELSE IF Head(list) = x THEN Tail(list)
    ELSE <<Head(list)>> \o RemoveFirst(Tail(list), x)

MapDel(f, k) == [x \in DOMAIN f \ {k} |-> f[x]]
MapPut(f, k, v) == [x \in DOMAIN f \cup {k} |-> IF x = k THEN v ELSE f[x]]

\* a mutation of Register: without `self.connection_sessions[websocket] = session_id`
RegisterListOnly(h, w, s) ==
    LET isNew == s \notin DOMAIN h.ac
        old == IF isNew THEN <<>> ELSE h.ac[s]
    IN [ac |-> MapPut(h.ac, s, Append(old, w)),
        cs |-> h.cs,
        gen |-> IF isNew THEN [h.gen EXCEPT ![s] = @ + 1] ELSE h.gen]

\* ConnectionManager.connect, lines 38-43 (after accept)
Register(h, w, s) ==
    LET isNew == s \notin DOMAIN h.ac
        old == IF isNew THEN <<>> ELSE h.ac[s]
    IN [ac |-> MapPut(h.ac, s, Append(old, w)),
        cs |-> MapPut(h.cs, w, s),
        gen |-> IF isNew THEN [h.gen EXCEPT ![s] = @ + 1] ELSE h.gen]

\* self.active_connections[session_id].remove(websocket) raises ValueError
\* when the reverse map names a session whose list does not hold the socket
disconnect_raises(h, w) ==
    /\ w \in DOMAIN h.cs
    /\ h.cs[w] \in DOMAIN h.ac
    /\ w \notin {h.ac[h.cs[w]][i] : i \in DOMAIN h.ac[h.cs[w]]}

\* a mutation of disconnect: without `del self.connection_sessions[websocket]`
disconnectKeepReverse(h, w) ==
    IF w \notin DOMAIN h.cs THEN h
    ELSE LET s == h.cs[w]
             ac1 == IF s \in DOMAIN h.ac
                    THEN LET l == RemoveFirst(h.ac[s], w)
                         IN IF l = <<>> THEN MapDel(h.ac, s) ELSE MapPut(h.ac, s, l)
                    ELSE h.ac
         IN [ac |-> ac1, cs |-> h.cs, gen |-> h.gen]

\* ConnectionManager.disconnect
disconnect(h, w) ==
    IF w \notin DOMAIN h.cs THEN h
    ELSE LET s == h.cs[w]
             ac1 == IF s \in DOMAIN h.ac
                    THEN LET l == RemoveFirst(h.ac[s], w)
                         IN IF l = <<>> THEN MapDel(h.ac, s) ELSE MapPut(h.ac, s, l)
                    ELSE h.ac
         IN [ac |-> ac1, cs |-> MapDel(h.cs, w), gen |-> h.gen]

RECURSIVE DisconnectAll(_, _)
DisconnectAll(h, disc) ==
    IF disc = <<>> THEN h ELSE DisconnectAll(disconnect(h, Head(disc)), Tail(disc))

Range(seq) == {seq[i] : i \in 1..Len(seq)}

Room(h, s) == IF s \in DOMAIN h.ac THEN Range(h.ac[s]) ELSE {}


(***************************************************************************)
(* ConnectionManager.broadcast.  The loop `for connection in               *)
(* self.active_connections[session_id]` holds the list object and an index *)
(* into it; the list is the one connect/disconnect mutate in place.  The   *)
(* coroutine is suspended at `await connection.send_json(message)`.        *)
(***************************************************************************)
IdleBc ==
    [phase |-> "idle", ev |-> Ev("", 0, 0, NoNode), ret |-> "", exclude |-> NoSink,
     gen |-> 0, idx |-> 0, disc |-> <<>>, cur |-> NoSink,
     room0 |-> {}, tried |-> <<>>, got |-> {}, stayed |-> {}]

\* the list object a running broadcast iterates over: the room's list while
\* the key still holds that object, an emptied list once the key was deleted
IterList(h, s, b) ==
    IF s \in DOMAIN h.ac /\ h.gen[s] = b.gen THEN h.ac[s] ELSE <<>>

\* the list iterator positions of the sinks the loop visits after position idx
NextPos(list, idx) == idx + 1

\* a mutation of AdvanceIter: the loop walks the list from its end
RECURSIVE AdvanceIterRev(_, _, _, _, _, _)
AdvanceIterRev(list, idx, disc, tried, exclude, cstate) ==
    IF idx >= Len(list)
    THEN [idx |-> idx, disc |-> disc, tried |-> tried, cur |-> NoSink]
    ELSE LET c == list[Len(list) - idx]
         IN IF c = exclude
            THEN AdvanceIterRev(list, idx + 1, disc, tried, exclude, cstate)
            ELSE IF cstate[c] # "CONNECTED"
            THEN AdvanceIterRev(list, idx + 1, Append(disc, c), Append(tried, c), exclude, cstate)
            ELSE [idx |-> idx + 1, disc |-> disc, tried |-> Append(tried, c), cur |-> c]

\* lines 117-126: fetch the next connection of the iterator, skipping
\* `exclude` and collecting connections whose client_state is not CONNECTED
RECURSIVE AdvanceIter(_, _, _, _, _, _)
AdvanceIter(list, idx, disc, tried, exclude, cstate) ==
    IF idx >= Len(list)
    THEN [idx |-> idx, disc |-> disc, tried |-> tried, cur |-> NoSink]
    ELSE LET p == NextPos(list, idx)
             c == list[p]
         IN IF c = exclude
            THEN AdvanceIter(list, p, disc, tried, exclude, cstate)
            ELSE IF cstate[c] # "CONNECTED"
            THEN AdvanceIter(list, p, Append(disc, c), Append(tried, c), exclude, cstate)
            ELSE [idx |-> p, disc |-> disc, tried |-> Append(tried, c), cur |-> c]

\* lines 135-139: the loop is over; disconnect every collected connection
FinishBroadcast(h, s, b, it) ==
    [hub |-> DisconnectAll(h, it.disc),
     pc |-> b.ret,
     bc |-> [b EXCEPT !.phase = "done", !.idx = it.idx, !.disc = it.disc,
                      !.tried = it.tried, !.cur = NoSink,
                      !.stayed = b.room0 \cap Room(h, s)]]

\* the loop goes on to the next connection, or ends
StepBroadcast(h, s, b, it) ==
    IF it.cur = NoSink
    THEN FinishBroadcast(h, s, b, it)
    ELSE [hub |-> h, pc |-> "bcast",
          bc |-> [b EXCEPT !.phase = "send", !.idx = it.idx, !.disc = it.disc,
                           !.tried = it.tried, !.cur = it.cur]]

\* lines 92-117: a coroutine of session s calls broadcast(ev, s, exclude) and
\* goes on at `ret` when the call returns
BeginBroadcast(h, s, ev, ret, exclude, cstate) ==
    IF s \notin DOMAIN h.ac
    THEN [hub |-> h, pc |-> ret, bc |-> [IdleBc EXCEPT !.phase = "done", !.ev = ev, !.ret = ret,
                                                        !.exclude = exclude]]
    ELSE LET b == [IdleBc EXCEPT !.ev = ev, !.ret = ret, !.exclude = exclude,
                                 !.gen = h.gen[s], !.room0 = Room(h, s) \ {exclude}]
         IN StepBroadcast(h, s, b, AdvanceIter(h.ac[s], 0, <<>>, <<>>, exclude, cstate))

\* `await connection.send_json(message)` raises when the peer is gone
SendOk(c) == clientOpen[c]

\* a mutation of Deliver: the frame overtakes the ones sent before it
DeliverFront(q, ev) == <<ev>> \o q

\* send_json on one socket: the client reads the frames in the order of the sends
Deliver(q, ev) == Append(q, ev)

\* a mutation of AfterSend: no try/except around send_json, so that a send
\* that raises ends the broadcast and the frame of the caller (lines 482-488)
AfterSendRaise(h, s, b, ok, cstate) ==
    IF ok
    THEN StepBroadcast(h, s, [b EXCEPT !.got = @ \cup {b.cur}],
                       AdvanceIter(IterList(h, s, b), b.idx, b.disc, b.tried, b.exclude, cstate))
    ELSE [hub |-> h, pc |-> "err",
          bc |-> [b EXCEPT !.phase = "done", !.cur = NoSink,
                           !.stayed = b.room0 \cap Room(h, s)]]

\* lines 128-133 and the next iteration: the awaited send to b.cur returns or raises
AfterSend(h, s, b, ok, cstate) ==
    LET disc1 == IF ok THEN b.disc ELSE Append(b.disc, b.cur)
        b1 == [b EXCEPT !.got = IF ok THEN @ \cup {b.cur} ELSE @]
    IN StepBroadcast(h, s, b1,
                     AdvanceIter(IterList(h, s, b), b.idx, disc1, b.tried, b.exclude, cstate))

\* ConnectionManager.send_personal_message: the frames the client gets
Personal(w, ev) ==
    IF client_state[w] = "CONNECTED" /\ clientOpen[w]
    THEN [log EXCEPT ![w][ev.op] = Deliver(@, ev)]
    ELSE log

(***************************************************************************)
(* Store: nodes, messages, recommendations                                 *)
(***************************************************************************)
\* the Node vertices the runs start from: the root n0 of session s1, which holds
\* one exchange, and its child n1
InitNodes ==
    [n \in {"n0", "n1"} |->
        IF n = "n0"
        THEN [session_id |-> "s1", parent_id |-> NoNode, type |-> "root", summary |-> FALSE,
              depth |-> 0, source_node_ids |-> <<>>, message_count |-> 2, token_count |-> 2,
              is_generating |-> FALSE, summary_content |-> FALSE,
     metadata |-> {}]
        ELSE [session_id |-> "s1", parent_id |-> "n0", type |-> "main", summary |-> FALSE,
              depth |-> 1, source_node_ids |-> <<>>, message_count |-> 0, token_count |-> 0,
              is_generating |-> FALSE, summary_content |-> FALSE,
     metadata |-> {}]]

\* SessionService.create_session: the Session vertex keeps the id of its root node
InitSessions == [s \in {"s1"} |-> [root_node_id |-> "n0"]]

\* MessageService.create_message line 46: int(len(content.split()) * 1.5), every
\* chunk of a content counted as one word
TokenCount(content) == (Len(content) * 3) \div 2

Msg(id, node, role, content, ts, op) ==
    [id |-> id, node_id |-> node, role |-> role, content |-> content, timestamp |-> ts, op |-> op,
     token_count |-> TokenCount(content)]

InitMessages ==
    {Msg(1, "n0", "user", <<<<0, "user">>>>, 1, 0),
     Msg(2, "n0", "assistant", <<<<1, "llm">>>>, 2, 0)}

\* NodeService.has_children: a HAS_CHILD edge leaves the node
has_children(ns, n) == \E c \in DOMAIN ns : ns[c].parent_id = n

\* MessageService.get_messages_by_node
MessagesOf(ms, n) == {m \in ms : m.node_id = n}

\* SUM(m.token_count) over a set of messages
RECURSIVE SumTokens(_)
SumTokens(ms) ==
    IF ms = {} THEN 0
    ELSE LET m == CHOOSE x \in ms : TRUE IN m.token_count + SumTokens(ms \ {m})

\* MessageService._update_node_message_stats: the query matches the node
\* together with its messages, so a node without messages is left as it is
update_node_message_stats(ns, ms, n) ==
    IF n \in DOMAIN ns /\ MessagesOf(ms, n) # {}
    THEN [ns EXCEPT ![n].message_count = Cardinality(MessagesOf(ms, n)),
                    ![n].token_count = SumTokens(MessagesOf(ms, n))]
    ELSE ns

InitLoc ==
    [op |-> 0, kind |-> "", target |-> NoNode, node |-> NoNode, auto |-> FALSE,
     mode |-> "llm", n |-> 0, mockLeft |-> 0, content |-> <<>>, llmFailed |-> FALSE,
     fault |-> "none", userMsg |-> 0, aiMsg |-> 0, ref |-> NoNode, nrec |-> 0,
     stream |-> TRUE, parentSummary |-> FALSE, emitted |-> <<>>, closedMid |-> FALSE,
     room0 |-> {}, analysisFailed |-> FALSE]

Init ==
    /\ active_connections = <<>>
    /\ connection_sessions = <<>>
    /\ roomGen = [s \in Sessions |-> 0]
    /\ clientOpen = [w \in Sinks |-> TRUE]
    /\ client_state = [w \in Sinks |-> "CONNECTING"]
    /\ pc = [w \in Sinks |-> "idle"]
    /\ loc = [w \in Sinks |-> InitLoc]
    /\ bc = [w \in Sinks |-> IdleBc]
    /\ log = [w \in Sinks |-> [o \in Ops |-> <<>>]]
    /\ nodes = InitNodes
    /\ messages = InitMessages
    /\ recs = {}
    /\ sessions = InitSessions
    /\ clock = 2
    /\ chats = 0
    /\ updates = 0
    /\ replies = <<>>
    /\ tasks = <<>>

SetHub(h) ==
    /\ active_connections' = h.ac
    /\ connection_sessions' = h.cs
    /\ roomGen' = h.gen

\* the coroutine of w calls broadcast with event ev and continues at ret
Call(w, l, ev, ret) ==
    LET r == BeginBroadcast(Hub, SessionOf(w), ev, ret, NoSink, client_state)
    IN /\ SetHub(r.hub)
       /\ pc' = [pc EXCEPT ![w] = r.pc]
       /\ bc' = [bc EXCEPT ![w] = r.bc]
       /\ loc' = [loc EXCEPT ![w] = [l EXCEPT !.emitted = Append(@, ev)]]

\* the next event of the frame being handled
Emit(l, type, node) == Ev(type, l.op, Len(l.emitted) + 1, node)


(***************************************************************************)
(* websocket_endpoint: connection set-up and tear-down                     *)
(***************************************************************************)
\* ConnectionManager.connect up to the registration (lines 34-43)
Connect(w) ==
    /\ pc[w] = "idle"
    /\ clientOpen[w]
    /\ SetHub(Register(Hub, w, SessionOf(w)))
    /\ client_state' = [client_state EXCEPT ![w] = "CONNECTED"]
    /\ pc' = [pc EXCEPT ![w] = "greet"]
    /\ UNCHANGED <<clientOpen, loc, bc, log, storeVars, frameVars>>

\* ConnectionManager.connect, lines 47-50: the connection confirmation
Greet(w) ==
    /\ pc[w] = "greet"
    /\ log' = Personal(w, Ev("connection", 0, 0, NoNode))
    /\ pc' = [pc EXCEPT ![w] = "recv"]
    /\ UNCHANGED <<hubVars, clientOpen, client_state, loc, bc, storeVars, frameVars>>

\* the peer goes away (environment)
ClientClose(w) ==
    /\ clientOpen[w]
    /\ pc[w] \notin {"idle", "closed"}
    /\ clientOpen' = [clientOpen EXCEPT ![w] = FALSE]
    /\ loc' = [loc EXCEPT ![w].closedMid = pc[w] \notin {"greet", "recv"}]
    /\ UNCHANGED <<hubVars, client_state, pc, bc, log, storeVars, frameVars>>

\* receive_text raises WebSocketDisconnect: lines 490-492
ReceiveDisconnect(w) ==
    /\ pc[w] = "recv"
    /\ ~clientOpen[w]
    /\ client_state' = [client_state EXCEPT ![w] = "DISCONNECTED"]
    /\ SetHub(disconnect(Hub, w))
    /\ pc' = [pc EXCEPT ![w] = "closed"]
    /\ UNCHANGED <<clientOpen, loc, bc, log, storeVars, frameVars>>

(***************************************************************************)
(* websocket_endpoint: a `chat` frame in streaming mode (lines 52-268)     *)
(***************************************************************************)
\* the frames are numbered in their order of arrival
NextOp == chats + updates + 1

NewLoc(op, kind, node, stream) ==
    [InitLoc EXCEPT !.op = op, !.kind = kind, !.target = node, !.node = node,
                    !.stream = stream]

\* lines 40-87: the frame arrives; has_children and get_node are asked
ReceiveChat(w, n) ==
    /\ pc[w] = "recv"
    /\ clientOpen[w]
    /\ chats < MaxChats
    /\ n \in DOMAIN nodes
    /\ chats' = chats + 1
    /\ LET l == [NewLoc(NextOp, IF has_children(nodes, n) THEN "ref" ELSE "leaf",
                        n, TRUE)
                 EXCEPT !.parentSummary = nodes[n].summary, !.room0 = Room(Hub, SessionOf(w))]
       IN IF has_children(nodes, n)
          THEN Call(w, l, Emit(l, "creating_reference_node", n), "create_ref")
          ELSE /\ loc' = [loc EXCEPT ![w] = l]
               /\ pc' = [pc EXCEPT ![w] = "persist_user"]
               /\ UNCHANGED <<hubVars, bc>>
    /\ UNCHANGED <<clientOpen, client_state, log, storeVars, updates, replies, tasks>>

\* NodeService.create_node lines 46-112: the stored vertex.  depth comes from
\* get_node(parent_id), which answers None when its query fails; there is no
\* source_node_ids property in the CREATE, and token_count starts at 0
NewNode(ns, session, parent, type, found) ==
    [session_id |-> session, parent_id |-> parent, type |-> type, summary |-> FALSE,
     depth |-> IF parent # NoNode /\ parent \in DOMAIN ns /\ found
               THEN ns[parent].depth + 1 ELSE 0,
     source_node_ids |-> <<>>, message_count |-> 0, token_count |-> 0,
     is_generating |-> FALSE, summary_content |-> FALSE,
     metadata |-> {}]

\* lines 89-101: NodeCreate(session_id=parent.session_id, parent_id=node_id, type="reference")
RefNode(parent) == NewNode(nodes, nodes[parent].session_id, parent, "reference", TRUE)

\* lines 89-122: NodeService.create_node, then reference_node_created
CreateRef(w) ==
    /\ pc[w] = "create_ref"
    /\ LET l == loc[w]
           r == RefIds[l.op]
       IN \E ok \in BOOLEAN :
            IF ok
            THEN /\ nodes' = MapPut(nodes, r, RefNode(l.target))
                 /\ LET l1 == [l EXCEPT !.ref = r]
                        e == [Emit(l1, "reference_node_created", l.target)
                              EXCEPT !.src = l.target, !.tgt = r]
                    IN Call(w, l1, e, "after_ref")
            ELSE /\ loc' = [loc EXCEPT ![w].fault = "store"]
                 /\ pc' = [pc EXCEPT ![w] = "err"]
                 /\ UNCHANGED <<hubVars, bc, nodes>>
    /\ UNCHANGED <<clientOpen, client_state, log, sessions, messages, recs, clock, frameVars>>

\* lines 124-145: the parent summary step, then the turn goes on on the reference node
AfterRef(w) ==
    /\ pc[w] = "after_ref"
    /\ LET l == loc[w]
       IN IF ~l.parentSummary
          THEN Call(w, l, Emit(l, "generating_summary", l.target), "gen_summary")
          ELSE /\ loc' = [loc EXCEPT ![w].node = l.ref]
               /\ pc' = [pc EXCEPT ![w] = "persist_user"]
               /\ UNCHANGED <<hubVars, bc>>
    /\ UNCHANGED <<clientOpen, client_state, log, storeVars, frameVars>>

\* schemas/service_responses.py lines 55-62: the fields of SummaryResult that
\* have no default
SummaryResultRequired == {"summary", "title", "original_message_count"}

\* chat_service.py lines 549-554: the fields the constructor call passes
SummaryResultGiven == {"summary", "original_message_count", "token_count", "created_at"}

\* ChatService._generate_node_summary_if_needed lines 513-560: TRUE when a
\* SummaryResult comes back.  The summary is stored by update_node first; the
\* constructor then fails validation on a missing required field, and the
\* except clause answers None
summary_result(given) == SummaryResultRequired \subseteq given

\* ChatService._generate_node_summary_if_needed and lines 135-145:
\* summary_generated goes out only when a result came back
GenSummary(w) ==
    /\ pc[w] = "gen_summary"
    /\ LET l == loc[w]
           l1 == [l EXCEPT !.node = l.ref]
       IN \E ok \in BOOLEAN :
            IF ok /\ Cardinality(MessagesOf(messages, l.target)) >= 2
                  /\ l.target \in DOMAIN nodes
            THEN /\ nodes' = [nodes EXCEPT ![l.target].summary = TRUE]
                 /\ IF summary_result(SummaryResultGiven)
                    THEN Call(w, l1, Emit(l1, "summary_generated", l.target), "persist_user")
                    ELSE /\ loc' = [loc EXCEPT ![w] = l1]
                         /\ pc' = [pc EXCEPT ![w] = "persist_user"]
                         /\ UNCHANGED <<hubVars, bc>>
            ELSE /\ loc' = [loc EXCEPT ![w] = l1]
                 /\ pc' = [pc EXCEPT ![w] = "persist_user"]
                 /\ UNCHANGED <<hubVars, bc, nodes>>
    /\ UNCHANGED <<clientOpen, client_state, log, sessions, messages, recs, clock, frameVars>>

\* MessageService.create_message lines 23-78: CREATE (m:Message {node_id: ...})
\* WITH m MATCH (n:Node {id}) CREATE (n)-[:HAS_MESSAGE]->(m).  The vertex is
\* created before the node is matched, so it is stored also when there is no
\* such node; it then has no HAS_MESSAGE edge, which is a message whose node_id
\* is the id of no vertex
create_message(ms, node, role, content, op) ==
    ms \cup {Msg(clock + 1, node, role, content, clock + 1, op)}

\* lines 147-162: the user message is stored, then stream_start
PersistUser(w) ==
    /\ pc[w] = "persist_user"
    /\ LET l == loc[w]
       IN \E ok \in BOOLEAN :
            IF ok
            THEN /\ messages' = create_message(messages, l.node, "user", <<<<0, "user">>>>, l.op)
                 /\ nodes' = update_node_message_stats(nodes, messages', l.node)
                 /\ clock' = clock + 1
                 /\ LET l1 == [l EXCEPT !.userMsg = clock + 1]
                    IN Call(w, l1, [Emit(l1, "stream_start", l.node) EXCEPT !.msg = clock + 1],
                            "stream")
            ELSE /\ loc' = [loc EXCEPT ![w].fault = "user"]
                 /\ pc' = [pc EXCEPT ![w] = "err"]
                 /\ UNCHANGED <<hubVars, bc, messages, clock, nodes>>
    /\ UNCHANGED <<clientOpen, client_state, log, sessions, recs, frameVars>>


\* the chunk a stream yields as the k-th of the turn
Chunk(k, src) == <<k, src>>

\* a mutation of ChunkEv: the chunk names the node of the frame, not the node
\* the turn was moved to
ChunkEvOnTarget(l, k, src) ==
    [Emit(l, "stream_chunk", l.target) EXCEPT !.chunk = k, !.csrc = src]

\* lines 174-180: the stream_chunk event
ChunkEv(l, k, src) == [Emit(l, "stream_chunk", l.node) EXCEPT !.chunk = k, !.csrc = src]

\* lines 172-180: the provider stream yields a chunk (GeminiService lines 237-243)
StreamChunk(w) ==
    /\ pc[w] = "stream"
    /\ LET l == loc[w]
       IN /\ l.mode = "llm"
          /\ l.n < MaxChunks
          /\ LET l1 == [l EXCEPT !.n = l.n + 1, !.content = Append(@, Chunk(l.n + 1, "llm"))]
             IN Call(w, l1, ChunkEv(l1, l.n + 1, "llm"), "stream")
    /\ UNCHANGED <<clientOpen, client_state, log, storeVars, frameVars>>

\* GeminiService.stream_chat_completion lines 245-248: the provider stream
\* raises and the generator goes on with _mock_stream
StreamFail(w) ==
    /\ pc[w] = "stream"
    /\ loc[w].mode = "llm"
    /\ loc' = [loc EXCEPT ![w].mode = "mock", ![w].llmFailed = TRUE,
                          ![w].mockLeft = MockChunks]
    /\ UNCHANGED <<hubVars, clientOpen, client_state, pc, bc, log, storeVars, frameVars>>

\* GeminiService._mock_stream: the next chunk of the fallback text
MockChunk(w) ==
    /\ pc[w] = "stream"
    /\ LET l == loc[w]
       IN /\ l.mode = "mock"
          /\ l.mockLeft > 0
          /\ LET l1 == [l EXCEPT !.n = l.n + 1, !.mockLeft = @ - 1,
                                 !.content = Append(@, Chunk(l.n + 1, "mock"))]
             IN Call(w, l1, ChunkEv(l1, l.n + 1, "mock"), "stream")
    /\ UNCHANGED <<clientOpen, client_state, log, storeVars, frameVars>>

EndEv(l, aiId) == [Emit(l, "stream_end", l.node) EXCEPT !.msg = aiId]

\* a mutation of ReplyNode: the reply is stored on the parent of the node
ReplyNodeParent(l) == nodes[l.node].parent_id

\* the node the assistant message of a streaming turn is stored on (lines 183-198)
ReplyNode(l) == l.node

\* what is stored as the assistant message (lines 171-173, 195)
FullResponse(l) == l.content

\* lines 182-202, 260-268: the stream is exhausted; the assistant message is
\* stored (MessageCreate rejects an empty content), then analysis or stream_end.
\* `auto` is the frame's auto_branch flag, which is read here first (line 202)
StreamEnd(w) ==
    /\ pc[w] = "stream"
    /\ LET l == loc[w]
       IN /\ l.mode = "llm" \/ l.mockLeft = 0
          /\ \E ok \in BOOLEAN, auto \in BOOLEAN :
               IF FullResponse(l) = <<>> \/ ~ok
               THEN /\ loc' = [loc EXCEPT ![w].fault =
                                   IF FullResponse(l) = <<>> THEN "empty" ELSE "store"]
                    /\ pc' = [pc EXCEPT ![w] = "err"]
                    /\ UNCHANGED <<hubVars, bc, messages, clock, nodes>>
               ELSE /\ messages' = create_message(messages, ReplyNode(l), "assistant",
                                                  FullResponse(l), l.op)
                    /\ nodes' = update_node_message_stats(nodes, messages', ReplyNode(l))
                    /\ clock' = clock + 1
                    /\ LET l1 == [l EXCEPT !.aiMsg = clock + 1, !.auto = auto]
                       IN IF auto
                          THEN /\ loc' = [loc EXCEPT ![w] = l1]
                               /\ pc' = [pc EXCEPT ![w] = "analyze"]
                               /\ UNCHANGED <<hubVars, bc>>
                          ELSE Call(w, l1, EndEv(l1, clock + 1), "recv")
    /\ UNCHANGED <<clientOpen, client_state, log, sessions, recs, frameVars>>

\* uuid4 of a recommendation: one id per (frame, branch)
RecId(op, i) == <<op, i>>
NoId == <<0, 0>>

\* BranchRecommendationService.create_recommendation: the stored vertex
Rec(op, msg, node, i) ==
    [id |-> RecId(op, i), op |-> op, message_id |-> msg, node_id |-> node, idx |-> i,
     session_id |-> IF node \in DOMAIN nodes THEN nodes[node].session_id ELSE NoNode,
     status |-> "pending", created_branch_id |-> NoNode, dismissed_at |-> 0]

\* a mutation of AnalysisOutcome: analyze_branching without its try/except
AnalysisOutcomeRaise(failed, k) ==
    [branches |-> IF failed THEN 0 ELSE k, raised |-> failed]

\* GeminiService.analyze_branching lines 139-198: the provider returns k
\* branches, or the call fails and the except branch answers an empty list
AnalysisOutcome(failed, k) ==
    [branches |-> IF failed THEN 0 ELSE k, raised |-> FALSE]

\* the elements of a set of numbers in increasing order
RECURSIVE SortedSeq(_)
SortedSeq(S) ==
    IF S = {} THEN <<>>
    ELSE LET m == CHOOSE x \in S : \A y \in S : x <= y
         IN <<m>> \o SortedSeq(S \ {m})

\* lines 221-258: recommended_branches of stream_end: one item per branch of the
\* analysis; the i-th item gets the id of the i-th record the batch returned
RecItems(op, n, stored) ==
    [i \in 1..n |-> [idx |-> i,
                     id |-> IF i <= Cardinality(stored)
                            THEN RecId(op, SortedSeq(stored)[i]) ELSE NoId]]

\* lines 200-268: analyze_branching returns its branches (none when it failed);
\* the batch is stored (create_recommendations_batch drops the ones whose insert
\* fails); stream_end
Analyze(w) ==
    /\ pc[w] = "analyze"
    /\ LET l == loc[w]
       IN \E failed \in BOOLEAN : \E k \in 0..MaxRecs :
            /\ failed => k = 0
            /\ LET out == AnalysisOutcome(failed, k)
               IN IF out.raised
                  THEN /\ loc' = [loc EXCEPT ![w].fault = "analysis", ![w].analysisFailed = TRUE]
                       /\ pc' = [pc EXCEPT ![w] = "err"]
                       /\ UNCHANGED <<hubVars, bc, recs>>
                  ELSE \E stored \in SUBSET (1..out.branches) :
                         /\ recs' = recs \cup {Rec(l.op, l.aiMsg, l.node, i) : i \in stored}
                         /\ LET l1 == [l EXCEPT !.nrec = out.branches,
                                                !.analysisFailed = failed,
                                                !.fault = IF stored = 1..out.branches
                                                          THEN @ ELSE "recs"]
                            IN Call(w, l1, [EndEv(l1, l.aiMsg) EXCEPT
                                              !.recs = RecItems(l.op, out.branches, stored)],
                                    "recv")
    /\ UNCHANGED <<clientOpen, client_state, log, sessions, nodes, messages, clock, frameVars>>

\* lines 482-488: an exception of the frame is reported to the sender only
Err(w) ==
    /\ pc[w] = "err"
    /\ log' = Personal(w, [Emit(loc[w], "error", NoNode) EXCEPT !.err = TRUE])
    /\ pc' = [pc EXCEPT ![w] = "recv"]
    /\ UNCHANGED <<hubVars, clientOpen, client_state, loc, bc, storeVars, frameVars>>

\* ConnectionManager.broadcast lines 128-133: the awaited send_json to the
\* current connection returns or raises, and the loop goes on
SendComplete(w) ==
    /\ pc[w] = "bcast"
    /\ bc[w].phase = "send"
    /\ LET b == bc[w]
           ok == SendOk(b.cur)
           r == AfterSend(Hub, SessionOf(w), b, ok, client_state)
       IN /\ log' = IF ok THEN [log EXCEPT ![b.cur][b.ev.op] = Deliver(@, b.ev)] ELSE log
          /\ SetHub(r.hub)
          /\ pc' = [pc EXCEPT ![w] = r.pc]
          /\ bc' = [bc EXCEPT ![w] = r.bc]
    /\ UNCHANGED <<clientOpen, client_state, loc, storeVars, frameVars>>

(***************************************************************************)
(* websocket_endpoint: a `chat` frame with stream = false (lines 270-303)  *)
(* and ChatService.process_chat                                            *)
(***************************************************************************)
ReceiveChatPlain(w, n) ==
    /\ pc[w] = "recv"
    /\ clientOpen[w]
    /\ chats < MaxChats
    /\ n \in DOMAIN nodes
    /\ chats' = chats + 1
    /\ loc' = [loc EXCEPT ![w] = NewLoc(NextOp, IF has_children(nodes, n) THEN "plainp"
                                                   ELSE "plain", n, FALSE)]
    /\ pc' = [pc EXCEPT ![w] = "ns_user"]
    /\ UNCHANGED <<hubVars, clientOpen, client_state, bc, log, storeVars, updates, replies, tasks>>

ResponseEv(l) == [Emit(l, "chat_response", l.node) EXCEPT !.msg = l.aiMsg, !.err = l.fault # "none"]

\* process_chat lines 77-131: the user message is stored and the completion is asked;
\* on an exception process_chat returns its error result (lines 208-218)
PlainUser(w) ==
    /\ pc[w] = "ns_user"
    /\ LET l == loc[w]
       IN \E ok \in BOOLEAN :
            IF ok
            THEN /\ messages' = create_message(messages, l.node, "user", <<<<0, "user">>>>, l.op)
                 /\ nodes' = update_node_message_stats(nodes, messages', l.node)
                 /\ clock' = clock + 1
                 /\ loc' = [loc EXCEPT ![w].userMsg = clock + 1]
                 /\ pc' = [pc EXCEPT ![w] = "ns_llm"]
                 /\ UNCHANGED <<hubVars, bc>>
            ELSE /\ LET l1 == [l EXCEPT !.fault = "user"]
                    IN Call(w, l1, ResponseEv(l1), "recv")
                 /\ UNCHANGED <<messages, clock, nodes>>
    /\ UNCHANGED <<clientOpen, client_state, log, sessions, recs, frameVars>>

\* process_chat lines 131-218 and endpoint lines 288-303: the completion
\* returns, the assistant message is stored, the branches are analysed when
\* auto_branch is set (they are returned, not stored), chat_response is broadcast
PlainReply(w) ==
    /\ pc[w] = "ns_llm"
    /\ LET l == loc[w]
       IN \E ok \in BOOLEAN :
            IF ok
            THEN /\ messages' = create_message(messages, l.node, "assistant",
                                               <<Chunk(1, "llm")>>, l.op)
                 /\ nodes' = update_node_message_stats(nodes, messages', l.node)
                 /\ clock' = clock + 1
                 /\ \E auto \in BOOLEAN, failed \in BOOLEAN : \E k \in 0..MaxRecs :
                      /\ failed => (auto /\ k = 0)
                      /\ ~auto => k = 0
                      /\ LET out == AnalysisOutcome(failed, k)
                             l1 == [l EXCEPT !.aiMsg = IF out.raised THEN 0 ELSE clock + 1,
                                             !.content = <<Chunk(1, "llm")>>,
                                             !.auto = auto, !.analysisFailed = failed,
                                             !.nrec = out.branches,
                                             !.fault = IF out.raised THEN "analysis" ELSE @]
                         IN Call(w, l1, [ResponseEv(l1) EXCEPT
                                           !.recs = RecItems(l.op, out.branches, {})],
                                 "recv")
            ELSE /\ LET l1 == [l EXCEPT !.fault = "store"]
                    IN Call(w, l1, ResponseEv(l1), "recv")
                 /\ UNCHANGED <<messages, clock, nodes>>
    /\ UNCHANGED <<clientOpen, client_state, log, sessions, recs, frameVars>>

(***************************************************************************)
(* websocket_endpoint: frames that are no request (lines 39-43, 467-488)   *)
(***************************************************************************)
\* what the client sent: a JSON object whose type is none of the handled ones,
\* a text that is no JSON, a JSON text that is no object
BadFrames == {"unknown", "malformed", "not_object"}

\* a mutation of ErrorText: every such frame is answered "Invalid message format"
ErrorTextOne(kind) == "Invalid message format"

\* the message of the error event: the else branch (lines 468-472), the
\* JSONDecodeError handler (lines 475-479), and str(e) of the AttributeError
\* message.get raises on a list, a string or a number (lines 43, 482-486)
ErrorText(kind) ==
    CASE kind = "unknown" -> "Unknown message type"
      [] kind = "malformed" -> "Invalid message format"
      [] OTHER -> "object has no attribute 'get'"

\* the frame is answered on the socket it came from and the loop goes on to
\* the next receive_text.  The frame is counted with the node_update frames
ReceiveBadFrame(w, kind) ==
    /\ pc[w] = "recv"
    /\ clientOpen[w]
    /\ updates < MaxUpdates
    /\ updates' = updates + 1
    /\ loc' = [loc EXCEPT ![w] = NewLoc(NextOp, kind, NoNode, FALSE)]
    /\ log' = Personal(w, Ev("error", NextOp, 1, NoNode) @@ ("text" :> ErrorText(kind)))
    /\ UNCHANGED <<hubVars, clientOpen, client_state, pc, bc, storeVars, chats, replies, tasks>>

(***************************************************************************)
(* websocket_endpoint: a `node_update` frame (lines 305-329)               *)
(***************************************************************************)
ReceiveNodeUpdate(w, n) ==
    /\ pc[w] = "recv"
    /\ clientOpen[w]
    /\ updates < MaxUpdates
    /\ n \in DOMAIN nodes
    /\ updates' = updates + 1
    /\ LET l == NewLoc(NextOp, "update", n, FALSE)
       IN Call(w, l, Emit(l, "node_updated", n), "recv")
    /\ UNCHANGED <<clientOpen, client_state, log, storeVars, chats, replies, tasks>>

\* the nodes a frame can name: the ones without and the ones with children
Leaves == {n \in DOMAIN nodes : ~has_children(nodes, n)}
Parents == {n \in DOMAIN nodes : has_children(nodes, n)}

\* chat turns on leaf nodes, node updates, connects and disconnects
Next ==
    \/ \E w \in Sinks : Connect(w)
    \/ \E w \in Sinks : Greet(w)
    \/ \E w \in Sinks : ClientClose(w)
    \/ \E w \in Sinks : ReceiveDisconnect(w)
    \/ \E w \in Sinks : \E n \in Leaves : ReceiveChat(w, n)
    \/ \E w \in Sinks : PersistUser(w)
    \/ \E w \in Sinks : StreamChunk(w)
    \/ \E w \in Sinks : StreamFail(w)
    \/ \E w \in Sinks : MockChunk(w)
    \/ \E w \in Sinks : StreamEnd(w)
    \/ \E w \in Sinks : Analyze(w)
    \/ \E w \in Sinks : Err(w)
    \/ \E w \in Sinks : SendComplete(w)
    \/ \E w \in Sinks : \E n \in Leaves : ReceiveChatPlain(w, n)
    \/ \E w \in Sinks : PlainUser(w)
    \/ \E w \in Sinks : PlainReply(w)
    \/ \E w \in Sinks : \E n \in Leaves : ReceiveNodeUpdate(w, n)

Spec == Init /\ [][Next]_vars

\* streaming chat turns on nodes that have children (the auto-reference rule)
NextRef ==
    \/ \E w \in Sinks : Connect(w)
    \/ \E w \in Sinks : Greet(w)
    \/ \E w \in Sinks : ClientClose(w)
    \/ \E w \in Sinks : ReceiveDisconnect(w)
    \/ \E w \in Sinks : \E n \in Parents : ReceiveChat(w, n)
    \/ \E w \in Sinks : CreateRef(w)
    \/ \E w \in Sinks : AfterRef(w)
    \/ \E w \in Sinks : GenSummary(w)
    \/ \E w \in Sinks : PersistUser(w)
    \/ \E w \in Sinks : StreamChunk(w)
    \/ \E w \in Sinks : StreamFail(w)
    \/ \E w \in Sinks : MockChunk(w)
    \/ \E w \in Sinks : StreamEnd(w)
    \/ \E w \in Sinks : Analyze(w)
    \/ \E w \in Sinks : Err(w)
    \/ \E w \in Sinks : SendComplete(w)

SpecRef == Init /\ [][NextRef]_vars

\* a frame that is no request, and a chat frame before or after it
NextFrames ==
    \/ \E w \in Sinks : Connect(w)
    \/ \E w \in Sinks : Greet(w)
    \/ \E w \in Sinks : ClientClose(w)
    \/ \E w \in Sinks : ReceiveDisconnect(w)
    \/ \E w \in Sinks, kind \in BadFrames : ReceiveBadFrame(w, kind)
    \/ \E w \in Sinks : \E n \in Leaves : ReceiveChatPlain(w, n)
    \/ \E w \in Sinks : PlainUser(w)
    \/ \E w \in Sinks : PlainReply(w)
    \/ \E w \in Sinks : SendComplete(w)

SpecFrames == Init /\ [][NextFrames]_vars

(***************************************************************************)
(* REST operations on sessions and nodes (api/endpoints/nodes.py,          *)
(* api/endpoints/sessions.py): each request runs one service method on the *)
(* store                                                                   *)
(***************************************************************************)
\* ids uuid4 hands to the vertices the REST operations create, in order of creation
StoreIds == <<"n2", "n3">>
StoreSessions == {"s1", "s2"}
AllIds == {"n0", "n1"} \cup {StoreIds[i] : i \in DOMAIN StoreIds}
NodeTypes == {"main", "root"}

\* uuid4(): an id no vertex had before
CanCreate == clock - 1 \in DOMAIN StoreIds
FreshId == StoreIds[clock - 1]

\* the ids handed out so far: a request can name these, existing or deleted, but
\* not the id uuid4 will yield next
Issued == {"n0", "n1"} \cup {StoreIds[i] : i \in {j \in DOMAIN StoreIds : j < clock - 1}}
Known(ids) == \A i \in DOMAIN ids : ids[i] \in Issued

\* SessionService.create_session lines 33-57: the root Node vertex; its CREATE has
\* no depth property, and get_node reads a missing depth as 0
RootNode(s) ==
    [session_id |-> s, parent_id |-> NoNode, type |-> "root", summary |-> FALSE,
     depth |-> 0, source_node_ids |-> <<>>, message_count |-> 0, token_count |-> 0,
     is_generating |-> FALSE, summary_content |-> FALSE,
     metadata |-> {}]

\* SessionService.create_session: Session and root Node in one CREATE query
create_session(s) ==
    /\ CanCreate
    /\ s \notin DOMAIN sessions
    /\ sessions' = MapPut(sessions, s, [root_node_id |-> FreshId])
    /\ nodes' = MapPut(nodes, FreshId, RootNode(s))
    /\ clock' = clock + 1
    /\ UNCHANGED <<hubVars, clientOpen, client_state, pc, loc, bc, log, messages, recs,
                   frameVars>>

\* POST /api/v1/nodes -> NodeService.create_node(node_data.session_id, node_data):
\* session_id, parent_id and type come from the request body unchecked
create_node(s, parent, type) ==
    /\ CanCreate
    /\ parent \in Issued \cup {NoNode}
    /\ \E found \in BOOLEAN :
         nodes' = MapPut(nodes, FreshId, NewNode(nodes, s, parent, type, found))
    /\ clock' = clock + 1
    /\ UNCHANGED <<hubVars, clientOpen, client_state, pc, loc, bc, log, messages, recs,
                   sessions, frameVars>>

\* restriction of the Node map to the vertices that are left
Without(ns, gone) == [n \in DOMAIN ns \ gone |-> ns[n]]

\* NodeService.delete_node lines 569-575 (include_descendants=False):
\* MATCH (n {id}) OPTIONAL MATCH (n)-[:HAS_MESSAGE]->(m) DETACH DELETE n, m
delete_node(n) ==
    /\ n \in DOMAIN nodes
    /\ nodes' = Without(nodes, {n})
    /\ messages' = {m \in messages : m.node_id # n}
    /\ UNCHANGED <<hubVars, clientOpen, client_state, pc, loc, bc, log, recs, sessions, clock,
                   frameVars>>

\* a mutation of Descendants: HAS_CHILD*0..1, the node and its children only
Children(ns, S) == S \cup {c \in DOMAIN ns : ns[c].parent_id \in S}

\* the vertices reached from n over HAS_CHILD*0..
RECURSIVE Descendants(_, _)
Descendants(ns, S) ==
    LET kids == {c \in DOMAIN ns : ns[c].parent_id \in S} \ S
    IN IF kids = {} THEN S ELSE Descendants(ns, S \cup kids)

\* NodeService.delete_node lines 556-567 (include_descendants=True)
delete_node_cascade(n) ==
    /\ n \in DOMAIN nodes
    /\ LET gone == Descendants(nodes, {n})
       IN /\ nodes' = Without(nodes, gone)
          /\ messages' = {m \in messages : m.node_id \notin gone}
    /\ UNCHANGED <<hubVars, clientOpen, client_state, pc, loc, bc, log, recs, sessions, clock,
                   frameVars>>

\* the request's node_ids: a non-empty list of ids, known to the store or not
IdLists == {<<a>> : a \in AllIds} \cup {<<a, b>> : a \in AllIds, b \in AllIds}

\* create_summary / create_reference lines 712-722, 938-948: the source nodes
\* get_node finds, in the order of the request
RECURSIVE SourceNodes(_, _)
SourceNodes(ns, ids) ==
    IF ids = <<>> THEN <<>>
    ELSE IF Head(ids) \in DOMAIN ns
         THEN <<Head(ids)>> \o SourceNodes(ns, Tail(ids))
         ELSE SourceNodes(ns, Tail(ids))

\* max(node.depth for node in source_nodes)
MaxDepth(ns, src) ==
    CHOOSE d \in {ns[src[i]].depth : i \in DOMAIN src} :
        \A i \in DOMAIN src : ns[src[i]].depth <= d

\* SummaryNodeService.create_summary_placeholder lines 35-67: depth 0, no
\* parent_id, source_node_ids = the request's node_ids, is_generating = true
SummaryNode(ns, ids) ==
    [session_id |-> ns[SourceNodes(ns, ids)[1]].session_id, parent_id |-> NoNode,
     type |-> "summary", summary |-> TRUE, depth |-> 0, source_node_ids |-> ids,
     message_count |-> 0, token_count |-> 0,
     is_generating |-> TRUE, summary_content |-> FALSE,
     metadata |-> {}]

\* NodeService.create_reference lines 952-983: depth = max source depth + 1, no
\* parent_id, source_node_ids = the request's node_ids
ReferenceNode(ns, ids) ==
    [session_id |-> ns[SourceNodes(ns, ids)[1]].session_id, parent_id |-> NoNode,
     type |-> "reference", summary |-> FALSE,
     depth |-> MaxDepth(ns, SourceNodes(ns, ids)) + 1, source_node_ids |-> ids,
     message_count |-> 0, token_count |-> 0,
     is_generating |-> FALSE, summary_content |-> FALSE,
     metadata |-> {}]

\* the task asyncio.create_task starts for generate_summary_content (lines
\* 743-750 of node_service.py): it has not run yet
NewTask(session) ==
    [pc |-> "run", session_id |-> session, llm_ok |-> FALSE, store_lost |-> FALSE, room |-> {}]

\* POST /api/v1/nodes/summary -> NodeService.create_summary: the placeholder is
\* stored and returned, the content is left to a background task
create_summary(ids) ==
    /\ CanCreate
    /\ Known(ids)
    /\ SourceNodes(nodes, ids) # <<>>
    /\ nodes' = MapPut(nodes, FreshId, SummaryNode(nodes, ids))
    /\ tasks' = MapPut(tasks, FreshId, NewTask(SummaryNode(nodes, ids).session_id))
    /\ clock' = clock + 1
    /\ UNCHANGED <<hubVars, clientOpen, client_state, pc, loc, bc, log, messages, recs,
                   sessions, chats, updates, replies>>

\* POST /api/v1/nodes/reference -> NodeService.create_reference
create_reference(ids) ==
    /\ CanCreate
    /\ Known(ids)
    /\ SourceNodes(nodes, ids) # <<>>
    /\ nodes' = MapPut(nodes, FreshId, ReferenceNode(nodes, ids))
    /\ clock' = clock + 1
    /\ UNCHANGED <<hubVars, clientOpen, client_state, pc, loc, bc, log, messages, recs,
                   sessions, frameVars>>

NextNodes ==
    \/ \E s \in StoreSessions : create_session(s)
    \/ \E s \in DOMAIN sessions, p \in AllIds \cup {NoNode}, t \in NodeTypes :
         create_node(s, p, t)
    \/ \E n \in AllIds : delete_node(n)
    \/ \E n \in AllIds : delete_node_cascade(n)
    \/ \E ids \in IdLists : create_summary(ids)
    \/ \E ids \in IdLists : create_reference(ids)

SpecNodes == Init /\ [][NextNodes]_vars

(***************************************************************************)
(* REST operations on messages (api/endpoints/messages.py)                 *)
(***************************************************************************)
MaxWords == 2        \* words of a posted message at most
MaxClock == 5        \* the store clock stops here (three inserts after the start)

\* a content of k words
Words(k) == [i \in 1..k |-> <<i - 1, "user">>]

\* POST /api/v1/messages -> MessageService.create_message: the Message vertex and
\* its HAS_MESSAGE edge, then _update_node_message_stats, whose failure is
\* logged and swallowed (lines 523-525)
insert_message(n, k) ==
    /\ clock < MaxClock
    /\ n \in DOMAIN nodes
    /\ messages' = create_message(messages, n, "user", Words(k), 0)
    /\ \E statsOk \in BOOLEAN :
         nodes' = IF statsOk THEN update_node_message_stats(nodes, messages', n) ELSE nodes
    /\ clock' = clock + 1
    /\ UNCHANGED <<hubVars, clientOpen, client_state, pc, loc, bc, log, recs, sessions,
                   frameVars>>

\* DELETE /api/v1/messages/{id} -> MessageService.delete_message lines 154-167:
\* MATCH (m:Message {id}) DETACH DELETE m, and nothing else
delete_message(id) ==
    /\ \E m \in messages : m.id = id
    /\ messages' = {m \in messages : m.id # id}
    /\ UNCHANGED <<hubVars, clientOpen, client_state, pc, loc, bc, log, nodes, recs, sessions,
                   clock, frameVars>>

NextMessages ==
    \/ \E n \in DOMAIN nodes, k \in 1..MaxWords : insert_message(n, k)
    \/ \E id \in 1..MaxClock : delete_message(id)

SpecMessages == Init /\ [][NextMessages]_vars

(***************************************************************************)
(* REST operations on branch recommendations                               *)
(* (api/endpoints/recommendations.py)                                      *)
(***************************************************************************)
MaxStoreRecs == 2    \* recommendations posted at most
NoStatus == "none"   \* a BranchRecommendationUpdate field left out (None)
Statuses == {"pending", "created", "dismissed", "expired"}

\* POST /api/v1/recommendations -> BranchRecommendationService.create_recommendation
create_recommendation(msg, n) ==
    /\ Cardinality(recs) < MaxStoreRecs
    /\ recs' = recs \cup {Rec(0, msg, n, Cardinality(recs) + 1)}
    /\ UNCHANGED <<hubVars, clientOpen, client_state, pc, loc, bc, log, nodes, messages,
                   sessions, clock, frameVars>>

\* BranchRecommendationService.update_recommendation lines 194-204: SET only the
\* fields of the update that are truthy
Updated(r, status, branch, dismissed) ==
    [r EXCEPT !.status = IF status # NoStatus THEN status ELSE @,
              !.created_branch_id = IF branch # NoNode THEN branch ELSE @,
              !.dismissed_at = IF dismissed # 0 THEN dismissed ELSE @]

\* the stored recommendations after update_recommendation(id, update)
SetRec(id, status, branch, dismissed) ==
    {IF r.id = id THEN Updated(r, status, branch, dismissed) ELSE r : r \in recs}

\* PATCH /api/v1/recommendations/{id} -> update_recommendation
update_recommendation(id, status, branch, dismissed) ==
    /\ \E r \in recs : r.id = id
    /\ recs' = SetRec(id, status, branch, dismissed)
    /\ UNCHANGED <<hubVars, clientOpen, client_state, pc, loc, bc, log, nodes, messages,
                   sessions, clock, frameVars>>

\* POST .../create-branch -> mark_as_created lines 234-244
mark_as_created(id, branch) ==
    /\ branch # NoNode
    /\ update_recommendation(id, "created", branch, 0)

\* POST .../dismiss -> mark_as_dismissed lines 246-255: dismissed_at = utcnow()
mark_as_dismissed(id) == update_recommendation(id, "dismissed", NoNode, clock)

NextRecs ==
    \/ \E m \in 1..2, n \in DOMAIN nodes : create_recommendation(m, n)
    \/ \E i \in 1..MaxStoreRecs, st \in Statuses \cup {NoStatus},
          b \in DOMAIN nodes \cup {NoNode}, d \in {0, clock} :
         update_recommendation(RecId(0, i), st, b, d)
    \/ \E i \in 1..MaxStoreRecs, b \in DOMAIN nodes : mark_as_created(RecId(0, i), b)
    \/ \E i \in 1..MaxStoreRecs : mark_as_dismissed(RecId(0, i))

SpecRecs == Init /\ [][NextRecs]_vars

(***************************************************************************)
(* REST delete requests and their replies (api/endpoints/nodes.py          *)
(* 215-335, NodeService.delete_node / delete_nodes).  The notifications of *)
(* the batch endpoints import the name `manager`, which connection_manager *)
(* does not define; the ImportError is caught, so no frame is sent.        *)
(***************************************************************************)
MaxRequests == 2     \* delete requests served at most

\* order of creation of the vertices (created_at)
NodeOrder == <<"n0", "n1">> \o StoreIds
IndexOf(x) == CHOOSE i \in DOMAIN NodeOrder : NodeOrder[i] = x

\* ORDER BY descendant.depth ASC, descendant.created_at ASC
RECURSIVE OrderByDepth(_, _)
OrderByDepth(ns, S) ==
    IF S = {} THEN <<>>
    ELSE LET x == CHOOSE a \in S : \A b \in S :
                     \/ ns[a].depth < ns[b].depth
                     \/ ns[a].depth = ns[b].depth /\ IndexOf(a) <= IndexOf(b)
         IN <<x>> \o OrderByDepth(ns, S \ {x})

\* NodeService.get_node_descendants lines 1058-1087: HAS_CHILD*1.., or [] when
\* the query fails
get_node_descendants(ns, n, ok) ==
    IF ok /\ n \in DOMAIN ns THEN OrderByDepth(ns, Descendants(ns, {n}) \ {n}) ELSE <<>>

\* the store after the cascade query of delete_node ran for n
CascadeStore(st, n) ==
    LET gone == IF n \in DOMAIN st.nodes THEN Descendants(st.nodes, {n}) ELSE {}
    IN [nodes |-> Without(st.nodes, gone),
        messages |-> {m \in st.messages : m.node_id \notin gone}]

\* DeleteNodesResult as delete_nodes starts with it (lines 595-601)
EmptyResult ==
    [success |-> FALSE, deleted_count |-> 0, deleted_node_ids |-> <<>>, failed_node_ids |-> <<>>]

\* one reply of a delete endpoint, with what the request removed from the store
Reply(op, ids, code, res, before, after) ==
    [op |-> op, ids |-> ids, code |-> code, result |-> res,
     gone |-> DOMAIN before \ DOMAIN after,
     left |-> {ids[i] : i \in DOMAIN ids} \cap DOMAIN after]

\* the names api/websocket/connection_manager.py defines at module level
ConnectionManagerNames == {"logger", "json_serializable", "ConnectionManager", "connection_manager"}

\* the frames of the clients after the notice of a delete endpoint (nodes.py lines
\* 194-205, 269-279, 324-334): `from ...connection_manager import manager`
\* raises ImportError when the module has no such name, and the except clause
\* around the notice logs a warning; the frame goes to the sinks of the session
\* otherwise
notify(names, session, type, ids) ==
    IF "manager" \in names
    THEN [w \in Sinks |->
            IF w \in Room(Hub, session) /\ client_state[w] = "CONNECTED" /\ clientOpen[w]
            THEN [log[w] EXCEPT ![0] = Deliver(@, Ev(type, 0, Len(@) + 1, NoNode)
                                                  @@ ("deleted_nodes" :> ids))]
            ELSE log[w]]
    ELSE log

\* DELETE /api/v1/nodes/{id} lines 174-212: 404 when get_node finds nothing or
\* delete_node answers False (its query raised), else the notice and 204
delete_node_request(n) ==
    /\ Len(replies) < MaxRequests
    /\ n \in Issued
    /\ \E ok \in BOOLEAN :
         LET done == ok /\ n \in DOMAIN nodes
             ns == IF done THEN Without(nodes, {n}) ELSE nodes
         IN /\ nodes' = ns
            /\ messages' = IF done THEN {m \in messages : m.node_id # n} ELSE messages
            /\ log' = IF done
                      THEN notify(ConnectionManagerNames, nodes[n].session_id,
                                  "node_deleted", <<n>>)
                      ELSE log
            /\ replies' = Append(replies, Reply("single", <<n>>, IF done THEN 204 ELSE 404,
                                                EmptyResult, nodes, ns))
    /\ UNCHANGED <<hubVars, clientOpen, client_state, pc, loc, bc, recs, sessions, clock,
                   chats, updates, tasks>>

\* DELETE /api/v1/nodes/{id}/cascade lines 215-232: delete_node answers False only
\* when its query raised, and then nothing was removed
delete_node_cascade_request(n) ==
    /\ Len(replies) < MaxRequests
    /\ n \in Issued
    /\ \E ok \in BOOLEAN :
         LET st == IF ok THEN CascadeStore([nodes |-> nodes, messages |-> messages], n)
                   ELSE [nodes |-> nodes, messages |-> messages]
         IN /\ nodes' = st.nodes
            /\ messages' = st.messages
            /\ replies' = Append(replies, Reply("cascade", <<n>>, IF ok THEN 204 ELSE 404,
                                                EmptyResult, nodes, st.nodes))
    /\ UNCHANGED <<hubVars, clientOpen, client_state, pc, loc, bc, log, recs, sessions, clock,
                   chats, updates, tasks>>

\* delete_nodes lines 603-622 (include_descendants=True): for each requested id
\* in turn, the descendants are looked up, then delete_node runs; fails and
\* blind are the positions where delete_node, resp. the lookup, raised
RECURSIVE CascadeLoop(_, _, _, _, _, _)
CascadeLoop(st, ids, i, fails, blind, res) ==
    IF i > Len(ids) THEN [store |-> st, result |-> res]
    ELSE LET n == ids[i]
             descendant_ids == get_node_descendants(st.nodes, n, i \notin blind)
         IN IF i \in fails
            THEN CascadeLoop(st, ids, i + 1, fails, blind,
                             [res EXCEPT !.failed_node_ids = Append(@, n)])
            ELSE CascadeLoop(CascadeStore(st, n), ids, i + 1, fails, blind,
                             [res EXCEPT !.deleted_node_ids = Append(@, n) \o descendant_ids,
                                         !.deleted_count = @ + 1 + Len(descendant_ids)])

\* FalkorDBManager.execute_write lines 355-362: True only when the query created
\* a node or a relationship, which a delete query never does
execute_write_delete == FALSE

\* delete_nodes lines 623-650 (include_descendants=False): one query removes the
\* requested nodes and their messages; its answer is the bool of execute_write,
\* so the branch reading deleted_count out of it is taken only when it is true
PlainBatch(st, ids, raised, res) ==
    LET asked == {ids[i] : i \in DOMAIN ids}
        after == [nodes |-> Without(st.nodes, asked \cap DOMAIN st.nodes),
                  messages |-> {m \in st.messages : m.node_id \notin asked}]
        removed == Cardinality(asked \cap DOMAIN st.nodes)
    IN IF raised
       THEN [store |-> st, result |-> [res EXCEPT !.failed_node_ids = ids]]
       ELSE [store |-> after,
             result |-> IF execute_write_delete
                        THEN [res EXCEPT !.deleted_count = removed, !.deleted_node_ids = ids]
                        ELSE res]

\* lines 652-671: success = no failed id
Finish(r) == [r EXCEPT !.result.success = (r.result.failed_node_ids = <<>>)]

\* the endpoints delete_multiple_nodes / delete_multiple_nodes_cascade: 400 when
\* every requested id failed, the result otherwise
BatchCode(ids, res) ==
    IF ~res.success /\ Len(res.failed_node_ids) = Len(ids) THEN 400 ELSE 200

\* lines 250-254, 268-279: the session is read off the first requested node
\* before the delete; the notice is tried when it was found, the reply is not
\* the 400 and the result lists a deleted id
BatchNotice(ids, res) ==
    IF ids[1] \in DOMAIN nodes /\ BatchCode(ids, res) # 400 /\ res.deleted_node_ids # <<>>
    THEN notify(ConnectionManagerNames, nodes[ids[1]].session_id, "nodes_deleted",
                res.deleted_node_ids)
    ELSE log

\* POST /api/v1/nodes/delete-multiple/cascade
delete_nodes_cascade_request(ids) ==
    /\ Len(replies) < MaxRequests
    /\ Known(ids)
    /\ \E fails \in SUBSET DOMAIN ids, blind \in SUBSET DOMAIN ids :
         LET r == Finish(CascadeLoop([nodes |-> nodes, messages |-> messages], ids, 1,
                                     fails, blind, EmptyResult))
         IN /\ nodes' = r.store.nodes
            /\ messages' = r.store.messages
            /\ replies' = Append(replies, Reply("batch_cascade", ids, BatchCode(ids, r.result),
                                                r.result, nodes, r.store.nodes))
            /\ log' = BatchNotice(ids, r.result)
    /\ UNCHANGED <<hubVars, clientOpen, client_state, pc, loc, bc, recs, sessions, clock,
                   chats, updates, tasks>>

\* POST /api/v1/nodes/delete-multiple
delete_nodes_request(ids) ==
    /\ Len(replies) < MaxRequests
    /\ Known(ids)
    /\ \E raised \in BOOLEAN :
         LET r == Finish(PlainBatch([nodes |-> nodes, messages |-> messages], ids, raised,
                                    EmptyResult))
         IN /\ nodes' = r.store.nodes
            /\ messages' = r.store.messages
            /\ replies' = Append(replies, Reply("batch", ids, BatchCode(ids, r.result),
                                                r.result, nodes, r.store.nodes))
            /\ log' = BatchNotice(ids, r.result)
    /\ UNCHANGED <<hubVars, clientOpen, client_state, pc, loc, bc, recs, sessions, clock,
                   chats, updates, tasks>>

NextDelete ==
    \/ \E p \in AllIds : create_node("s1", p, "main")
    \/ \E n \in AllIds : delete_node_cascade_request(n)
    \/ \E ids \in IdLists : delete_nodes_cascade_request(ids)
    \/ \E ids \in IdLists : delete_nodes_request(ids)

SpecDelete == Init /\ [][NextDelete]_vars

\* the delete endpoints with clients connected to the session
NextNotify ==
    \/ \E w \in Sinks : Connect(w)
    \/ \E w \in Sinks : Greet(w)
    \/ \E p \in AllIds : create_node("s1", p, "main")
    \/ \E n \in AllIds : delete_node_request(n)
    \/ \E ids \in IdLists : delete_nodes_request(ids)

SpecNotify == Init /\ [][NextNotify]_vars

(***************************************************************************)
(* DELETE /api/v1/sessions/{id} (api/endpoints/sessions.py 177-193,        *)
(* SessionService.delete_session)                                          *)
(***************************************************************************)
\* the three delete queries of delete_session, lines 245-264, run one after the
\* other up to the one that raises (steps = 3: none raises):
\*   1. the messages of the nodes the session HAS_NODE
\*   2. those nodes
\*   3. the Session vertex
SessionStore(s, steps) ==
    LET mine == {n \in DOMAIN nodes : nodes[n].session_id = s}
    IN [messages |-> IF steps >= 1 THEN {m \in messages : m.node_id \notin mine} ELSE messages,
        nodes |-> IF steps >= 2 THEN Without(nodes, mine) ELSE nodes,
        sessions |-> IF steps >= 3 THEN [x \in DOMAIN sessions \ {s} |-> sessions[x]]
                     ELSE sessions]

\* delete_session answers True when no query raised, and the endpoint 204; a
\* session that is not found, or a query that raises, gives 404
delete_session(s) ==
    /\ Len(replies) < MaxRequests
    /\ \E steps \in 0..3 :
         LET st == IF s \in DOMAIN sessions THEN SessionStore(s, steps)
                   ELSE [messages |-> messages, nodes |-> nodes, sessions |-> sessions]
             ok == s \in DOMAIN sessions /\ steps = 3
         IN /\ messages' = st.messages
            /\ nodes' = st.nodes
            /\ sessions' = st.sessions
            /\ replies' = Append(replies, Reply("delete_session", <<s>>,
                                                IF ok THEN 204 ELSE 404, EmptyResult,
                                                nodes, st.nodes))
    /\ UNCHANGED <<hubVars, clientOpen, client_state, pc, loc, bc, log, recs, clock,
                   chats, updates, tasks>>

\* uuid4(): a session id is handed out once
new_session(s) ==
    /\ \A i \in DOMAIN replies : replies[i].ids # <<s>>
    /\ create_session(s)

NextSessions ==
    \/ \E s \in StoreSessions : new_session(s)
    \/ \E s \in DOMAIN sessions, p \in AllIds : create_node(s, p, "main")
    \/ \E n \in DOMAIN nodes : insert_message(n, 1)
    \/ \E m \in messages : create_recommendation(m.id, m.node_id)
    \/ \E s \in StoreSessions : delete_session(s)

SpecSessions == Init /\ [][NextSessions]_vars

(***************************************************************************)
(* Background summary generation                                           *)
(* (SummaryNodeService.generate_summary_content, lines 127-244)            *)
(***************************************************************************)
SummaryChars == 8    \* characters of the generated summary text (one word)

\* is_generating of the node when the task ends: the update of lines 179-198
\* clears it; when that update or the create_message after it raises, the
\* handler of lines 227-244 clears it with an update of its own, and gives up
\* silently when that one raises too
OutcomeGenerating(llmOk, updateOk, msgOk, fallbackOk) ==
    IF updateOk THEN FALSE ELSE ~fallbackOk

\* the summary node after the task ended
SummaryUpdate(node, llmOk, updateOk, msgOk, fallbackOk) ==
    [node EXCEPT !.is_generating = OutcomeGenerating(llmOk, updateOk, msgOk, fallbackOk),
                 !.summary_content = IF updateOk THEN TRUE ELSE @,
                 !.token_count = IF updateOk THEN SummaryChars \div 4 ELSE @]

\* the task of one summary node, from the answer of the LLM call to its end.
\* The store calls after it answer without suspending.  The notice at lines
\* 210-225 imports the name `manager` from connection_manager, a module that
\* defines `connection_manager` only; the ImportError is caught and logged at
\* lines 224-225, so nothing is sent to any socket
generate_summary_content(n) ==
    /\ n \in DOMAIN tasks
    /\ tasks[n].pc = "run"
    /\ \E llmOk, updateOk, msgOk, fallbackOk \in BOOLEAN :
         /\ ~updateOk => msgOk
         /\ (updateOk /\ msgOk) => fallbackOk
         /\ LET stored == updateOk /\ msgOk
                ms == IF stored
                      THEN create_message(messages, n, "assistant", Words(1), 0)
                      ELSE messages
                ns == IF n \in DOMAIN nodes
                      THEN [nodes EXCEPT ![n] = SummaryUpdate(@, llmOk, updateOk, msgOk,
                                                             fallbackOk)]
                      ELSE nodes
            IN /\ messages' = ms
               /\ nodes' = IF stored THEN update_node_message_stats(ns, ms, n) ELSE ns
               /\ clock' = IF stored THEN clock + 1 ELSE clock
               /\ tasks' = [tasks EXCEPT ![n].pc = "done",
                                         ![n].llm_ok = llmOk,
                                         ![n].store_lost = ~updateOk /\ ~fallbackOk,
                                         ![n].room = Room(Hub, tasks[n].session_id)]
    /\ UNCHANGED <<hubVars, clientOpen, client_state, pc, loc, bc, log, recs, sessions,
                   chats, updates, replies>>

NextSummary ==
    \/ \E w \in Sinks : Connect(w)
    \/ \E w \in Sinks : Greet(w)
    \/ \E a \in AllIds : create_summary(<<a>>)
    \/ \E n \in AllIds : generate_summary_content(n)
    \/ \E n \in DOMAIN tasks : delete_node(n)

\* the event loop runs every task it was given
SpecSummary ==
    /\ Init
    /\ [][NextSummary]_vars
    /\ \A n \in AllIds : WF_vars(generate_summary_content(n))

(***************************************************************************)
(* Context assembly (services/message_service.py)                          *)
(***************************************************************************)
\* MATCH path = (target {id})<-[:HAS_CHILD*0..]-(ancestor) ... ORDER BY distance:
\* the target, its parent, and so on while the vertices exist
RECURSIVE AncestorPath(_, _)
AncestorPath(ns, n) ==
    IF n \notin DOMAIN ns THEN <<>>
    ELSE <<n>> \o AncestorPath(ns, ns[n].parent_id)

\* a mutation of UntilSummary: the loop without its break
WholePath(ns, path) == path

\* lines 212-218 and 330-335: every row is appended, and the loop breaks after a
\* row with is_summary or type = "summary" (the two are set together)
RECURSIVE UntilSummary(_, _)
UntilSummary(ns, path) ==
    IF path = <<>> THEN <<>>
    ELSE IF ns[Head(path)].type = "summary" THEN <<Head(path)>>
    ELSE <<Head(path)>> \o UntilSummary(ns, Tail(path))

node_ids_to_fetch(ns, n) == UntilSummary(ns, AncestorPath(ns, n))

\* the rows of a query without ORDER BY come in an order the store chooses: here
\* the newest first, and the sort that follows decides the order of the history
RECURSIVE Rows(_)
Rows(ms) ==
    IF ms = {} THEN <<>>
    ELSE LET m == CHOOSE x \in ms : \A y \in ms : y.id <= x.id
         IN <<m>> \o Rows(ms \ {m})

\* ORDER BY m.timestamp over the rows of a query
RECURSIVE OrderByTimestamp(_)
OrderByTimestamp(ms) ==
    IF ms = {} THEN <<>>
    ELSE LET m == CHOOSE x \in ms : \A y \in ms : x.timestamp <= y.timestamp
         IN <<m>> \o OrderByTimestamp(ms \ {m})

\* MATCH (n)-[:HAS_MESSAGE]->(m) WHERE n.id IN $node_ids
MessagesIn(ms, ids) == {m \in ms : \E i \in DOMAIN ids : m.node_id = ids[i]}

\* lines 288-291, 351-361 and 373-383: a message is appended unless its id is in
\* seen_message_ids
RECURSIVE AppendUnseen(_, _)
AppendUnseen(all, more) ==
    IF more = <<>> THEN all
    ELSE IF \E i \in DOMAIN all : all[i].id = Head(more).id
         THEN AppendUnseen(all, Tail(more))
         ELSE AppendUnseen(Append(all, Head(more)), Tail(more))

\* a mutation of SortByTimestamp: all_messages is returned as it was collected
Unsorted(s) == s

\* all_messages.sort(key=lambda m: m.timestamp): a stable sort
RECURSIVE SortByTimestamp(_)
SortByTimestamp(s) ==
    IF s = <<>> THEN <<>>
    ELSE LET i == CHOOSE k \in DOMAIN s :
                    /\ \A j \in DOMAIN s : s[k].timestamp <= s[j].timestamp
                    /\ \A j \in 1..(k - 1) : s[j].timestamp # s[k].timestamp
         IN <<s[i]>> \o SortByTimestamp(SubSeq(s, 1, i - 1) \o SubSeq(s, i + 1, Len(s)))

\* lines 315-361: the messages of every source's path, source after source
RECURSIVE SourceMessages(_, _, _, _)
SourceMessages(ns, ms, all, ids) ==
    IF ids = <<>> THEN all
    ELSE SourceMessages(ns, ms,
             AppendUnseen(all, Rows(MessagesIn(ms, node_ids_to_fetch(ns, Head(ids))))),
             Tail(ids))

\* MessageService.get_conversation_history(node_id, include_ancestors=True) and
\* _get_reference_node_history, which calls it for the parent of a reference
\* node.  ok: the queries answer; an exception makes the history empty
RECURSIVE get_conversation_history(_, _, _, _)
get_reference_node_history(ns, ms, n, ok) ==
    LET parent == ns[n].parent_id
        fromParent == IF parent \in DOMAIN ns
                      THEN get_conversation_history(ns, ms, parent, ok) ELSE <<>>
        \* the property, else the REFERENCED_BY edges: a reference node has both or none
        source_node_ids == ns[n].source_node_ids
        own == Rows(MessagesOf(ms, n))
    IN IF source_node_ids = <<>> /\ fromParent = <<>>
       THEN OrderByTimestamp(MessagesOf(ms, n))
       ELSE SortByTimestamp(AppendUnseen(SourceMessages(ns, ms, fromParent, source_node_ids), own))

get_conversation_history(ns, ms, n, ok) ==
    IF ~ok THEN <<>>
    ELSE IF n \in DOMAIN ns /\ ns[n].type = "reference"
         THEN get_reference_node_history(ns, ms, n, ok)
         ELSE OrderByTimestamp(MessagesIn(ms, node_ids_to_fetch(ns, n)))

\* ConversationHistory.is_summarized: set where the loop of lines 212-218 breaks;
\* _get_reference_node_history answers is_summarized=False in every return
\* (lines 390-400, and _get_node_messages_only lines 436-440)
is_summarized(ns, n) ==
    IF n \in DOMAIN ns /\ ns[n].type = "reference" THEN FALSE
    ELSE LET ids == node_ids_to_fetch(ns, n)
         IN ids # <<>> /\ ns[ids[Len(ids)]].type = "summary"

\* requests of the REST API that build the graphs context assembly walks: nodes
\* of the types main, summary and reference under any parent, reference nodes
\* over source lists, messages
NextHistory ==
    \/ \E p \in AllIds \cup {NoNode}, t \in {"main", "summary", "reference"} :
         create_node("s1", p, t)
    \/ \E ids \in IdLists : create_reference(ids)
    \/ \E n \in DOMAIN nodes : insert_message(n, 1)
    \/ \E n \in AllIds : delete_node(n)

SpecHistory == Init /\ [][NextHistory]_vars

\* time passes between two requests: datetime.utcnow() of the next call is later
Tick ==
    /\ clock < MaxClock
    /\ clock' = clock + 1
    /\ UNCHANGED <<hubVars, clientOpen, client_state, pc, loc, bc, log, nodes, messages, recs,
                   sessions, frameVars>>

\* recommendations are posted and dismissed, at different times
NextDismiss ==
    \/ \E m \in 1..2, n \in DOMAIN nodes : create_recommendation(m, n)
    \/ \E i \in 1..MaxStoreRecs : mark_as_dismissed(RecId(0, i))
    \/ Tick

SpecDismiss == Init /\ [][NextDismiss]_vars

(***************************************************************************)
(* Node metadata (services/node_service.py): stored as a JSON text,        *)
(* parsed when the node is read                                            *)
(***************************************************************************)
MetaKeys == {"k", "message_count"}
MetaValues == {1}

\* the metadata maps a request can carry: Dict[str, Any] over a few keys
Metadatas == UNION {[K -> MetaValues] : K \in SUBSET MetaKeys}

\* json.dumps(metadata): the text of an object, one member per key
json_dumps(md) == {<<k, md[k]>> : k \in DOMAIN md}

\* json.loads(text): the object with the members of the text
json_loads(text) == [k \in {p[1] : p \in text} |-> (CHOOSE p \in text : p[1] = k)[2]]

\* NodeService.get_node lines 186-236: the query counts the messages of the
\* node, the stored text is parsed, and metadata["message_count"] is set to
\* that count
get_node_metadata(ns, ms, n) ==
    LET metadata == json_loads(ns[n].metadata)
        message_count == Cardinality(MessagesOf(ms, n))
    IN [k \in DOMAIN metadata \cup {"message_count"} |->
            IF k = "message_count" THEN message_count ELSE metadata[k]]

\* POST /api/v1/nodes with a metadata map: create_node lines 94-110 store
\* json.dumps(metadata), or "{}" for an empty map
create_node_md(s, parent, md) ==
    /\ CanCreate
    /\ parent \in Issued \cup {NoNode}
    /\ nodes' = MapPut(nodes, FreshId,
                       [NewNode(nodes, s, parent, "main", TRUE)
                          EXCEPT !.metadata = IF md = <<>> THEN {} ELSE json_dumps(md)])
    /\ clock' = clock + 1
    /\ UNCHANGED <<hubVars, clientOpen, client_state, pc, loc, bc, log, messages, recs,
                   sessions, frameVars>>

\* PATCH /api/v1/nodes/{id} with a metadata map: update_node lines 521-541
\* SET n.metadata to json.dumps(metadata); the map replaces the stored one,
\* the key "summary" of ChatService._generate_node_summary_if_needed included
update_node(n, md) ==
    /\ n \in DOMAIN nodes
    /\ nodes' = [nodes EXCEPT ![n].metadata = json_dumps(md), ![n].summary = FALSE]
    /\ UNCHANGED <<hubVars, clientOpen, client_state, pc, loc, bc, log, messages, recs,
                   sessions, clock, frameVars>>

NextMetadata ==
    \/ \E p \in {NoNode, "n0"}, md \in Metadatas : create_node_md("s1", p, md)
    \/ \E n \in AllIds, md \in Metadatas : update_node(n, md)
    \/ \E n \in DOMAIN nodes : insert_message(n, 1)

SpecMetadata == Init /\ [][NextMetadata]_vars

(***************************************************************************)
(* The context handed to the LLM (services/chat_service.py,                *)
(* api/endpoints/websocket.py)                                             *)
(***************************************************************************)
TOKEN_LIMIT == 4000  \* chat_service.py line 93
LongWords == 2700    \* words of a long posted message: 4050 estimated tokens

\* sum(len(msg.content.split()) for msg in history)
RECURSIVE WordsIn(_)
WordsIn(h) == IF h = <<>> THEN 0 ELSE Len(Head(h).content) + WordsIn(Tail(h))

\* total_tokens > TOKEN_LIMIT with total_tokens = 1.5 * words, taken twice to
\* stay in the integers
OverLimit(words) == 3 * words > 2 * TOKEN_LIMIT

\* an entry of the list handed to the provider: role and content, and the node
\* its text was stored on ("system", "summary" and "request" for made entries)
AIMessage(role, content, from) == [role |-> role, content |-> content, from |-> from]

RECURSIVE AsAIMessages(_)
AsAIMessages(h) ==
    IF h = <<>> THEN <<>>
    ELSE <<AIMessage(Head(h).role, Head(h).content, Head(h).node_id)>> \o AsAIMessages(Tail(h))

\* ChatService._prepare_messages lines 562-574: the system prompt, the history,
\* and only the last 20 entries after the prompt when there are more
prepare_messages(h) ==
    LET all == <<AIMessage("system", <<>>, "system")>> \o AsAIMessages(h)
    IN IF Len(all) > 21 THEN <<all[1]>> \o SubSeq(all, Len(all) - 19, Len(all)) ELSE all

\* process_chat lines 99-120: the messages of the other nodes are replaced by
\* one system message that holds their summary; without such messages the
\* current node's messages are used
summarized_history(h, n) ==
    LET IsParent(m) == m.node_id # n
        IsCurrent(m) == m.node_id = n
        parent_messages == SelectSeq(h, IsParent)
        current_messages == SelectSeq(h, IsCurrent)
        summary_msg == [id |-> 0, node_id |-> "summary", role |-> "system",
                        content |-> <<<<0, "summary">>>>, timestamp |-> 0]
    IN IF parent_messages # <<>> THEN <<summary_msg>> \o current_messages
       ELSE current_messages

\* process_chat lines 82-128, after the user message was stored: what
\* chat_completion is called with.  request: the words of the user message, which
\* line 90 counts a second time and line 128 appends a second time
process_chat_messages(ns, ms, n, request) ==
    LET history == get_conversation_history(ns, ms, n, TRUE)
        used == IF OverLimit(WordsIn(history) + Len(request))
                THEN summarized_history(history, n) ELSE history
    IN Append(prepare_messages(used), AIMessage("user", request, "request"))

\* websocket_endpoint lines 164-171 and ChatService.stream_chat lines 576-581:
\* the streaming turn hands conversation.messages over as they are
stream_chat_messages(ns, ms, n) == AsAIMessages(get_conversation_history(ns, ms, n, TRUE))

\* websocket_endpoint lines 207-215: what analyze_branching is called with in a
\* streaming turn.  conversation is the history read at lines 164-168, after
\* the user message was stored and before the reply was; the user message and
\* the reply are appended to it
analysis_messages(ns, ms, n, request, response) ==
    prepare_messages(get_conversation_history(ns, ms, n, TRUE))
        \o <<AIMessage("user", request, "request"), AIMessage("assistant", response, "response")>>

\* process_chat lines 144-153: messages.copy() with the reply appended
process_chat_analysis(ns, ms, n, request, response) ==
    Append(process_chat_messages(ns, ms, n, request), AIMessage("assistant", response, "response"))

BudgetSinks == {"w1"}

\* one chat turn, streaming or not, of one client on a leaf node, after long
\* and short messages were posted to the nodes
NextBudget ==
    \/ \E w \in BudgetSinks : Connect(w)
    \/ \E w \in BudgetSinks : Greet(w)
    \/ \E n \in DOMAIN nodes, k \in {1, LongWords} : insert_message(n, k)
    \/ \E w \in BudgetSinks : \E n \in Leaves : ReceiveChat(w, n)
    \/ \E w \in BudgetSinks : PersistUser(w)
    \/ \E w \in BudgetSinks : StreamChunk(w)
    \/ \E w \in BudgetSinks : StreamFail(w)
    \/ \E w \in BudgetSinks : MockChunk(w)
    \/ \E w \in BudgetSinks : StreamEnd(w)
    \/ \E w \in BudgetSinks : Analyze(w)
    \/ \E w \in BudgetSinks : Err(w)
    \/ \E w \in BudgetSinks : SendComplete(w)
    \/ \E w \in BudgetSinks : \E n \in Leaves : ReceiveChatPlain(w, n)
    \/ \E w \in BudgetSinks : PlainUser(w)
    \/ \E w \in BudgetSinks : PlainReply(w)

SpecBudget == Init /\ [][NextBudget]_vars

(***************************************************************************)
(* Properties                                                              *)
(***************************************************************************)
HasType(q, t) == \E i \in 1..Len(q) : q[i].type = t

\* the coroutine of w has handled a frame and is back at receive_text (or gone)
TurnDone(w) == pc[w] \in {"recv", "closed"} /\ loc[w].op > 0

\* the chat turn of w ran to its end: its last event went out and neither
\* a store call nor the reply failed
TurnOk(w) ==
    /\ TurnDone(w)
    /\ loc[w].fault \in {"none", "recs"}
    /\ \/ loc[w].kind \in {"leaf", "ref"} /\ HasType(loc[w].emitted, "stream_end")
       \/ loc[w].kind = "plain" /\ HasType(loc[w].emitted, "chat_response")

\* the messages the frame being handled by w has stored
TurnMessages(w) == {m \in messages : m.op = loc[w].op}

StreamRank(t) ==
    CASE t = "stream_start" -> 1
      [] t = "stream_chunk" -> 2
      [] t = "stream_end" -> 3
      [] OTHER -> 0

\* C1: at every sink the events of one operation arrive in the order the
\* operation emitted them: stream_start before every stream_chunk of the turn,
\* the chunks in their order, stream_end after them, nothing twice, whatever
\* the other operations, connects and disconnects do in between.
EventOrderPreserved ==
    \A w \in Sinks : \A o \in Ops \ {0} :
        LET q == log[w][o]
        IN \A i, j \in 1..Len(q) :
             i < j =>
               /\ q[i].seq < q[j].seq
               /\ (StreamRank(q[i].type) > 0 /\ StreamRank(q[j].type) > 0)
                     => StreamRank(q[i].type) <= StreamRank(q[j].type)
               /\ (q[i].type = "stream_chunk" /\ q[j].type = "stream_chunk")
                     => q[i].chunk < q[j].chunk
               /\ q[i].type = q[j].type => q[i].type = "stream_chunk"

\* a sink got a whole stream of MaxChunks chunks and, from another
\* connection's frame, an event of its own
EventOrderWitness ==
    \E w \in Sinks : \E o, o2 \in Ops \ {0} :
        /\ o # o2
        /\ Len(log[w][o]) = MaxChunks + 2
        /\ log[w][o][1].type = "stream_start"
        /\ log[w][o][MaxChunks + 2].type = "stream_end"
        /\ log[w][o2] # <<>>
        /\ \E y \in Sinks : pc[y] = "closed"

\* C2: when a streaming chat turn on a leaf node has sent its stream_end,
\* every client that was connected to the session for the whole turn has
\* received stream_start, at least one stream_chunk, and stream_end.
EveryClientGetsStream ==
    \A w \in Sinks :
        (TurnDone(w) /\ loc[w].kind = "leaf" /\ HasType(loc[w].emitted, "stream_end")) =>
            \A y \in loc[w].room0 \cap Room(Hub, SessionOf(w)) :
                (clientOpen[y] /\ client_state[y] = "CONNECTED") =>
                    /\ HasType(log[y][loc[w].op], "stream_start")
                    /\ HasType(log[y][loc[w].op], "stream_chunk")
                    /\ HasType(log[y][loc[w].op], "stream_end")

\* C3: after a chat turn on a leaf node ran to its end (streaming or not), the
\* node has gained exactly two messages from it: the user message and then the
\* assistant message, the user message with the earlier timestamp.
TwoMessagesPerTurn ==
    \A w \in Sinks :
        (TurnOk(w) /\ loc[w].kind \in {"leaf", "plain"}) =>
            /\ \A m \in TurnMessages(w) : m.node_id = loc[w].target
            /\ \E u, a \in TurnMessages(w) :
                 /\ TurnMessages(w) = {u, a}
                 /\ u.role = "user" /\ a.role = "assistant"
                 /\ u.id = loc[w].userMsg /\ a.id = loc[w].aiMsg
                 /\ u.timestamp < a.timestamp

\* a streaming turn of MaxChunks chunks ended well on a node that had no message
TwoMessagesWitness ==
    \E w \in Sinks :
        /\ TurnOk(w) /\ loc[w].kind = "leaf"
        /\ loc[w].n = MaxChunks
        /\ Cardinality(MessagesOf(messages, loc[w].target)) = 2

\* C4: a streaming turn that broadcast stream_start and is over, however it
\* ended, has broadcast a stream_end as well.
StreamStartHasEnd ==
    \A w \in Sinks :
        (TurnDone(w) /\ HasType(loc[w].emitted, "stream_start"))
            => HasType(loc[w].emitted, "stream_end")

\* C5: when the provider stream failed after it had yielded a chunk, no
\* assistant message of the turn is stored (the node gains the user message only).
NoAssistantAfterLlmFailure ==
    \A w \in Sinks :
        (loc[w].llmFailed /\ \E i \in 1..Len(loc[w].content) : loc[w].content[i][2] = "llm") =>
            ~ \E m \in TurnMessages(w) : m.role = "assistant"

\* C6: when the sender's client went away in the middle of its streaming turn
\* and no store call failed, the turn still ran to its end: the assistant
\* message with the whole reply is stored on the node, the recommendations of
\* the analysis are stored, and stream_end was broadcast.
DisconnectedSenderTurnCompletes ==
    \A w \in Sinks :
        (TurnDone(w) /\ loc[w].kind = "leaf" /\ loc[w].closedMid
            /\ loc[w].fault = "none") =>
            /\ \E m \in TurnMessages(w) :
                 /\ m.role = "assistant" /\ m.node_id = loc[w].target
                 /\ m.content = loc[w].content /\ m.id = loc[w].aiMsg
            /\ HasType(loc[w].emitted, "stream_end")
            /\ loc[w].auto =>
                 Cardinality({r \in recs : r.op = loc[w].op /\ r.message_id = loc[w].aiMsg})
                     = loc[w].nrec

\* the sender went away before its first chunk, and the turn stored the
\* reply and a recommendation
DisconnectedSenderWitness ==
    \E w \in Sinks :
        /\ pc[w] = "closed" /\ loc[w].kind = "leaf" /\ loc[w].closedMid
        /\ loc[w].fault = "none" /\ loc[w].auto /\ loc[w].nrec = MaxRecs
        /\ loc[w].n = MaxChunks
        /\ ~ HasType(log[w][loc[w].op], "stream_chunk")

\* C7: a broadcast that has returned has sent its event to every sink (other
\* than `exclude`) that was registered in the room from its start to its end.
BroadcastReachesStayers ==
    \A w \in Sinks :
        bc[w].phase = "done" => bc[w].stayed \subseteq Range(bc[w].tried)

\* C8: when a send of a broadcast failed, the failed sinks are out of the
\* room, the broadcasting frame goes on, and every other sink that stayed in
\* the room has received the event.
FailedSinkIsolated ==
    \A w \in Sinks :
        (bc[w].phase = "done" /\ bc[w].disc # <<>>) =>
            /\ Range(bc[w].disc) \cap Room(Hub, SessionOf(w)) = {}
            /\ pc[w] # "err" \/ loc[w].fault # "none"
            /\ (bc[w].stayed \ Range(bc[w].disc)) \subseteq bc[w].got

RefRank(t) ==
    CASE t = "creating_reference_node" -> 1
      [] t = "reference_node_created" -> 2
      [] t = "generating_summary" -> 3
      [] t = "summary_generated" -> 4
      [] t = "stream_start" -> 5
      [] t = "stream_chunk" -> 6
      [] t = "stream_end" -> 7
      [] OTHER -> 0

ReferenceNodeReadsBack ==
    \A w \in Sinks :
        (loc[w].kind = "ref" /\ loc[w].ref # NoNode) =>
            /\ loc[w].ref \in DOMAIN nodes
            /\ nodes[loc[w].ref].type = "reference"
            /\ nodes[loc[w].ref].parent_id = loc[w].target
            /\ nodes[loc[w].ref].source_node_ids = <<loc[w].target>>

\* C13: when storing the user message of a chat turn failed, the turn has
\* broadcast no event to the session, no other client has received anything
\* from it, and once the frame is done the caller has been sent the error
\* (if its peer is still there).
UserPersistFailureSilent ==
    \A w \in Sinks :
        loc[w].fault = "user" =>
            /\ loc[w].emitted = <<>>
            /\ \A y \in Sinks \ {w} : log[y][loc[w].op] = <<>>
            /\ (TurnDone(w) /\ clientOpen[w]) => HasType(log[w][loc[w].op], "error")

\* C14: when the branch analysis of a chat turn failed, the assistant message
\* of the turn is stored, no recommendation of the turn is stored, the frame
\* does not end in the error handler, and a turn that is over has ended with
\* a stream_end (or chat_response) whose recommendation list is empty.
AnalysisFailureHarmless ==
    \A w \in Sinks :
        loc[w].analysisFailed =>
            /\ \E m \in TurnMessages(w) : m.role = "assistant" /\ m.node_id = loc[w].node
            /\ {r \in recs : r.op = loc[w].op} = {}
            /\ loc[w].fault = "none" /\ pc[w] # "err"
            /\ \E i \in 1..Len(loc[w].emitted) :
                 /\ loc[w].emitted[i].type \in {"stream_end", "chat_response"}
                 /\ loc[w].emitted[i].recs = <<>>
                 /\ ~ loc[w].emitted[i].err
                 /\ i = Len(loc[w].emitted)

\* a streaming turn whose analysis failed is over, and another client has its stream_end
AnalysisFailureWitness ==
    \E w \in Sinks : \E y \in Sinks \ {w} :
        /\ loc[w].analysisFailed /\ loc[w].kind = "leaf" /\ TurnDone(w)
        /\ HasType(log[y][loc[w].op], "stream_end")

\* C15: the recommended_branches of the stream_end of a streaming chat with
\* auto_branch = true has at most 3 items, and every item carries the id of
\* the recommendation record that was stored for that item.
StreamEndRecsCarryIds ==
    \A w \in Sinks :
        (loc[w].kind = "leaf" /\ loc[w].auto) =>
            \A i \in 1..Len(loc[w].emitted) :
                loc[w].emitted[i].type = "stream_end" =>
                    LET items == loc[w].emitted[i].recs
                    IN /\ Len(items) <= 3
                       /\ \A j \in 1..Len(items) :
                            \E r \in recs :
                                /\ r.id = items[j].id
                                /\ r.op = loc[w].op /\ r.idx = items[j].idx
                                /\ r.message_id = loc[w].aiMsg

\* C16: every node has depth 0 exactly when it has no parent_id, and a node with a
\* parent has the depth of its parent plus 1 (a parent_id that no longer names a
\* node is not held against the claim)
DepthMatchesParent ==
    \A n \in DOMAIN nodes :
        /\ (nodes[n].depth = 0) <=> (nodes[n].parent_id = NoNode)
        /\ nodes[n].parent_id \in DOMAIN nodes
              => nodes[n].depth = nodes[nodes[n].parent_id].depth + 1

\* C17: every session has exactly one root node: the node its root_node_id names
\* is in the store, is of type root and belongs to the session, and the session
\* has no other node of type root
SessionHasOneRoot ==
    \A s \in DOMAIN sessions :
        /\ sessions[s].root_node_id \in DOMAIN nodes
        /\ {n \in DOMAIN nodes : nodes[n].session_id = s /\ nodes[n].type = "root"}
              = {sessions[s].root_node_id}

\* C19: every summary or reference node has at least one source node id, and every
\* id of its source_node_ids that names a node names one of the same session
SourcesInSameSession ==
    \A n \in DOMAIN nodes :
        nodes[n].type \in {"summary", "reference"} =>
            /\ Len(nodes[n].source_node_ids) >= 1
            /\ \A i \in DOMAIN nodes[n].source_node_ids :
                 nodes[n].source_node_ids[i] \in DOMAIN nodes =>
                     nodes[nodes[n].source_node_ids[i]].session_id = nodes[n].session_id

\* C18: every node's message_count is the number of messages attached to it and
\* its token_count is the sum of their token counts
StatsMatchMessages ==
    \A n \in DOMAIN nodes :
        /\ nodes[n].message_count = Cardinality(MessagesOf(messages, n))
        /\ nodes[n].token_count = SumTokens(MessagesOf(messages, n))

\* C20: a recommendation has status created exactly when its created_branch_id is set
CreatedIffBranchSet ==
    \A r \in recs : (r.status = "created") <=> (r.created_branch_id # NoNode)

\* x is n or has n among its ancestors (the parent_id chain walked upwards)
RECURSIVE IsUnder(_, _, _)
IsUnder(ns, x, n) ==
    \/ x = n
    \/ /\ x \in DOMAIN ns
       /\ ns[x].parent_id \in DOMAIN ns
       /\ IsUnder(ns, ns[x].parent_id, n)

LastReply == replies[Len(replies)]

\* C21: a cascade delete that is answered 204 removes exactly the node and the
\* nodes below it together with all of their messages; every other node and
\* every other message stays as it was
CascadeDeletesSubtree ==
    [][(Len(replies') = Len(replies) + 1
         /\ replies'[Len(replies')].op = "cascade"
         /\ replies'[Len(replies')].code = 204)
        => LET n == replies'[Len(replies')].ids[1]
           IN /\ DOMAIN nodes' = {x \in DOMAIN nodes : ~IsUnder(nodes, x, n)}
              /\ \A x \in DOMAIN nodes' : nodes'[x] = nodes[x]
              /\ messages' = {m \in messages : ~IsUnder(nodes, m.node_id, n)}]_vars

\* the chain n0 -> n1 -> n2 -> n3 was cut at n1: n1, n2 and n3 are gone, the
\* ancestor n0 and its messages are still there
CascadeDeletesSubtreeWitness ==
    /\ replies # <<>>
    /\ LastReply.op = "cascade"
    /\ LastReply.code = 204
    /\ LastReply.ids = <<"n1">>
    /\ LastReply.gone = {"n1", "n2", "n3"}
    /\ DOMAIN nodes = {"n0"}
    /\ MessagesOf(messages, "n0") = InitMessages

SeqRange(q) == {q[i] : i \in DOMAIN q}

\* C22: the result a batch delete returns lists as deleted exactly the nodes the
\* call removed, as failed exactly the requested nodes that are still stored,
\* and counts the nodes removed
BatchResultIsExact ==
    \A i \in DOMAIN replies :
        (replies[i].op \in {"batch", "batch_cascade"} /\ replies[i].code = 200) =>
            /\ SeqRange(replies[i].result.deleted_node_ids) = replies[i].gone
            /\ SeqRange(replies[i].result.failed_node_ids) = replies[i].left
            /\ replies[i].result.deleted_count = Cardinality(replies[i].gone)

\* C23: when a cascade batch delete succeeded and the same ids are deleted again
\* (no query failing the second time), the second result has deleted_count = 0
\* and is no error
RepeatedCascadeDeletesNothing ==
    \A i \in DOMAIN replies : \A j \in DOMAIN replies :
        (/\ i < j
         /\ replies[i].op = "batch_cascade" /\ replies[j].op = "batch_cascade"
         /\ replies[i].ids = replies[j].ids
         /\ replies[i].result.success
         /\ replies[j].result.failed_node_ids = <<>>)
        => /\ replies[j].code = 200
           /\ replies[j].result.deleted_count = 0

\* C24: a session delete that is answered 204 removes the session, all of its
\* nodes, all messages of those nodes and all recommendations of the session
SessionDeleteRemovesAll ==
    [][(Len(replies') = Len(replies) + 1
         /\ replies'[Len(replies')].op = "delete_session"
         /\ replies'[Len(replies')].code = 204)
        => LET s == replies'[Len(replies')].ids[1]
               mine == {n \in DOMAIN nodes : nodes[n].session_id = s}
           IN /\ s \notin DOMAIN sessions'
              /\ mine \cap DOMAIN nodes' = {}
              /\ \A m \in messages' : m.node_id \notin mine
              /\ \A r \in recs' : r.session_id # s]_vars

Generating(n) == n \in DOMAIN nodes /\ nodes[n].is_generating

\* C25: a summary node is stored with is_generating = true while its task has
\* not ended, and every summary node that is generating eventually is not
\* generating any more (or is deleted), whatever fails on the way
SummaryLeavesGenerating ==
    /\ [](\A n \in DOMAIN tasks : (tasks[n].pc = "run" /\ n \in DOMAIN nodes) => Generating(n))
    /\ \A n \in AllIds : Generating(n) ~> ~Generating(n)

\* sink w has received a summary_completed event for node n
GotSummaryCompleted(w, n) ==
    \E o \in Ops : \E i \in DOMAIN log[w][o] :
        log[w][o][i].type = "summary_completed" /\ log[w][o][i].node = n

\* C26: once the background task of a summary node has ended, every sink that
\* was connected to the node's session at that moment receives a
\* summary_completed event for the node
SummaryCompletedBroadcast ==
    \A n \in AllIds : \A w \in Sinks :
        (n \in DOMAIN tasks /\ tasks[n].pc = "done" /\ w \in tasks[n].room)
            ~> GotSummaryCompleted(w, n)

\* the nodes a walk from n collects: n and its ancestors up to the first node of
\* type summary, that node included
Walked(ns, n) ==
    {x \in DOMAIN ns :
        /\ n \in DOMAIN ns
        /\ IsUnder(ns, n, x)
        /\ \A y \in DOMAIN ns :
             (y # x /\ IsUnder(ns, n, y) /\ IsUnder(ns, y, x)) => ns[y].type # "summary"}

\* the nodes whose messages belong to the context of n: the walk from n; for a
\* reference node, n itself, the context of its parent and the walk from each source
RECURSIVE ContextNodes(_, _)
ContextNodes(ns, n) ==
    IF ns[n].type = "reference"
    THEN {n}
         \cup (IF ns[n].parent_id \in DOMAIN ns THEN ContextNodes(ns, ns[n].parent_id) ELSE {})
         \cup UNION {Walked(ns, s) : s \in SeqRange(ns[n].source_node_ids)}
    ELSE Walked(ns, n)

History(n) == get_conversation_history(nodes, messages, n, TRUE)

HistoryOrderedAndUnique ==
    \A n \in DOMAIN nodes :
        LET h == History(n)
        IN \A i \in DOMAIN h, j \in DOMAIN h :
              i < j => (h[i].timestamp < h[j].timestamp /\ h[i].id # h[j].id)

\* a reference node over two sources whose walks share a node with messages:
\* the shared messages are collected twice and returned once, in time order,
\* followed by a later message of the reference node itself
HistoryOrderedAndUniqueWitness ==
    \E r \in DOMAIN nodes :
        /\ nodes[r].type = "reference"
        /\ Len(nodes[r].source_node_ids) = 2
        /\ \E x \in Walked(nodes, nodes[r].source_node_ids[1])
                    \cap Walked(nodes, nodes[r].source_node_ids[2]) :
              MessagesOf(messages, x) # {}
        /\ MessagesOf(messages, r) # {}
        /\ Len(History(r)) >= 3

\* the estimate of the context of a turn of w: the words of the assembled
\* history of its node
ContextWords(w) == WordsIn(History(loc[w].node))

\* the list has the messages of other nodes collapsed: no entry comes from a
\* node other than n, and when the history held such messages exactly one
\* synthesised system entry stands for them, before every entry of n
Collapsed(list, h, n) ==
    /\ \A i \in DOMAIN list : list[i].from \in {n, "system", "summary", "request"}
    /\ (\E i \in DOMAIN h : h[i].node_id # n) =>
          /\ Cardinality({i \in DOMAIN list : list[i].from = "summary"}) = 1
          /\ \A i \in DOMAIN list, j \in DOMAIN list :
                (list[i].from = "summary" /\ list[j].from = n) => i < j
          /\ \A i \in DOMAIN list : list[i].from = "summary" => list[i].role = "system"
    /\ \A i \in DOMAIN h : h[i].node_id = n =>
          \E j \in DOMAIN list : list[j].from = n /\ list[j].content = h[i].content

\* C29: whenever the estimated tokens of the assembled context exceed the
\* token limit, the list handed to the LLM has the messages of the parent
\* nodes collapsed into exactly one system message, followed by the messages of
\* the current node -- in a turn served by process_chat and in a streaming turn
ContextCollapsedOverLimit ==
    \A w \in Sinks :
        LET n == loc[w].node
        IN /\ (pc[w] = "ns_llm" /\ OverLimit(ContextWords(w) + 1)) =>
                 Collapsed(process_chat_messages(nodes, messages, n, Words(1)), History(n), n)
           /\ (pc[w] = "stream" /\ loc[w].n = 0 /\ loc[w].mode = "llm"
                  /\ OverLimit(ContextWords(w))) =>
                 Collapsed(stream_chat_messages(nodes, messages, n), History(n), n)

\* C30: a mark_as_dismissed call on a recommendation that an earlier call has
\* dismissed leaves status = dismissed and dismissed_at as the first call set it
DismissKeepsFirstTimestamp ==
    [][\A r \in recs :
          (r.status = "dismissed" /\ r.dismissed_at # 0) =>
              \E q \in recs' :
                  /\ q.id = r.id
                  /\ q.status = "dismissed"
                  /\ q.dismissed_at = r.dismissed_at]_vars

\* C31: no node of type summary or reference is an endpoint of a HAS_CHILD
\* edge: it has no parent node and no node has it as its parent
AggregatorsOutsideTree ==
    \A n \in DOMAIN nodes :
        nodes[n].type \in {"summary", "reference"} =>
            /\ nodes[n].parent_id \notin DOMAIN nodes
            /\ ~has_children(nodes, n)

\* C32: the assembled history of a node has is_summarized = true exactly when
\* the walk from the node -- for a reference node, the walk from one of its
\* sources -- came to a node of type summary and halted there
SummarizedIffHalted ==
    \A n \in DOMAIN nodes :
        is_summarized(nodes, n)
            <=> \E s \in (IF nodes[n].type = "reference"
                          THEN SeqRange(nodes[n].source_node_ids) \cap DOMAIN nodes
                          ELSE {n}) :
                   \E y \in Walked(nodes, s) : nodes[y].type = "summary"

\* C33: the metadata map a create or an update wrote is what reading the node
\* back returns: the same keys with the same values
MetadataReadsBack ==
    [][\A n \in AllIds, md \in Metadatas :
          (update_node(n, md)
             \/ (CanCreate /\ n = FreshId
                   /\ \E p \in {NoNode, "n0"} : create_node_md("s1", p, md)))
          => get_node_metadata(nodes', messages', n) = md]_vars

\* C34: a frame with an unknown type or with malformed JSON is answered with
\* one error event on the socket it came from, "Unknown message type: ..."
\* respectively "Invalid message format", no other sink gets it, and the
\* connection stays registered and waits for the next frame
BadFrameAnswered ==
    \A w \in Sinks :
        (loc[w].kind \in {"unknown", "malformed"} /\ clientOpen[w]) =>
            /\ Len(log[w][loc[w].op]) = 1
            /\ log[w][loc[w].op][1].type = "error"
            /\ log[w][loc[w].op][1].text = IF loc[w].kind = "unknown"
                                           THEN "Unknown message type"
                                           ELSE "Invalid message format"
            /\ \A v \in Sinks \ {w} : log[v][loc[w].op] = <<>>
            /\ pc[w] = "recv"
            /\ client_state[w] = "CONNECTED"
            /\ w \in Room(Hub, SessionOf(w))

\* a sink got the error event for its malformed frame and then a chat_response
\* for the chat frame it sent next
BadFrameAnsweredWitness ==
    \E w \in Sinks : \E o \in Ops :
        /\ Len(log[w][o]) = 1
        /\ log[w][o][1].type = "error"
        /\ log[w][o][1].text = "Invalid message format"
        /\ loc[w].op > o
        /\ loc[w].kind = "plain"
        /\ \E i \in DOMAIN log[w][loc[w].op] : log[w][loc[w].op][i].type = "chat_response"

\* C35: disconnect is idempotent: on a sink that is not registered (never was,
\* or was removed by an earlier disconnect or by the cleanup of a broadcast) it
\* leaves the hub as it is, a second disconnect after a first changes nothing,
\* and neither raises
DisconnectIdempotent ==
    \A w \in Sinks :
        LET h1 == disconnect(Hub, w)
        IN /\ ~disconnect_raises(Hub, w)
           /\ ~disconnect_raises(h1, w)
           /\ disconnect(h1, w) = h1
           /\ w \notin DOMAIN connection_sessions => h1 = Hub

\* the cleanup of a broadcast removed a sink whose send failed, and the
\* endpoint of that sink has called disconnect for it as well
DisconnectIdempotentWitness ==
    \E w \in Sinks, v \in Sinks :
        /\ pc[w] = "closed"
        /\ bc[v].phase = "done"
        /\ \E i \in DOMAIN bc[v].disc : bc[v].disc[i] = w
        /\ w \notin DOMAIN connection_sessions

\* C40: the two maps of the hub agree: a sink is in the list of session s
\* exactly when connection_sessions maps it to s, no list holds a sink twice,
\* and no session key maps to an empty list
HubMapsAgree ==
    /\ \A s \in DOMAIN active_connections :
          /\ active_connections[s] # <<>>
          /\ \A i \in DOMAIN active_connections[s], j \in DOMAIN active_connections[s] :
                active_connections[s][i] = active_connections[s][j] => i = j
          /\ \A i \in DOMAIN active_connections[s] :
                /\ active_connections[s][i] \in DOMAIN connection_sessions
                /\ connection_sessions[active_connections[s][i]] = s
    /\ \A w \in DOMAIN connection_sessions :
          /\ connection_sessions[w] \in DOMAIN active_connections
          /\ \E i \in DOMAIN active_connections[connection_sessions[w]] :
                active_connections[connection_sessions[w]][i] = w

\* two sinks had connected, a broadcast has removed one whose send failed,
\* and the other one is still registered
HubMapsAgreeWitness ==
    \E w \in Sinks, v \in Sinks :
        /\ w # v
        /\ bc[v].phase = "done"
        /\ \E i \in DOMAIN bc[v].disc : bc[v].disc[i] = w
        /\ w \notin DOMAIN connection_sessions
        /\ v \in DOMAIN connection_sessions
        /\ client_state[w] = "CONNECTED"

\* C36: when the parent summary step of a reference turn produces a summary
\* and stores it on the parent node, the turn has emitted generating_summary
\* and then summary_generated, both naming the parent node, and no
\* stream_start yet.
SummaryStoredAnnounced ==
    [][\A w \in Sinks :
          (/\ pc[w] = "gen_summary" /\ pc'[w] = "persist_user"
           /\ loc[w].target \in DOMAIN nodes
           /\ ~nodes[loc[w].target].summary
           /\ nodes'[loc[w].target].summary)
          => LET e == loc'[w].emitted
                 k == Len(e)
             IN /\ k >= 2
                /\ e[k - 1].type = "generating_summary" /\ e[k - 1].node = loc[w].target
                /\ e[k].type = "summary_generated" /\ e[k].node = loc[w].target
                /\ ~HasType(e, "stream_start")]_vars

\* C37: when a delete request for one node or for a list of nodes is answered
\* with success and removed nodes, every sink connected to the session gets a
\* node_deleted / nodes_deleted frame that lists the removed ids.
DeletionBroadcast ==
    [][(/\ Len(replies') = Len(replies) + 1
        /\ replies'[Len(replies')].op \in {"single", "batch"}
        /\ replies'[Len(replies')].code \in {200, 204}
        /\ replies'[Len(replies')].gone # {})
       => \A y \in Room(Hub, "s1") :
            (client_state[y] = "CONNECTED" /\ clientOpen[y]) =>
                /\ Len(log'[y][0]) = Len(log[y][0]) + 1
                /\ LET ev == log'[y][0][Len(log'[y][0])]
                   IN /\ ev.type \in {"node_deleted", "nodes_deleted"}
                      /\ replies'[Len(replies')].gone \subseteq Range(ev.deleted_nodes)]_vars

\* C38: every stored message is attached to a node of the store, also after
\* a summary task finished on a node that was deleted while it ran.
MessagesAttached ==
    \A m \in messages : m.node_id \in DOMAIN nodes

\* the entries of a list that carry the user message of a turn on node n: the
\* entry read from the store and the entry made from the request
UserCopies(list, n) ==
    Cardinality({i \in DOMAIN list : /\ list[i].role = "user"
                                     /\ list[i].content = Words(1)
                                     /\ list[i].from \in {n, "request"}})

\* the user message of the turn of w is the only user message with its content
\* on the node of the turn
OnlyTurnMessage(w) ==
    /\ loc[w].userMsg # 0
    /\ \A m \in MessagesOf(messages, loc[w].node) :
          (m.role = "user" /\ m.content = Words(1)) => m.id = loc[w].userMsg

\* the store as the streaming turn of w read it for its history: without the
\* reply of the turn
BeforeReply(w) == {m \in messages : m.id # loc[w].aiMsg}

\* C39: in every chat turn the new user message is exactly once in the list
\* the reply is asked with, streaming or not, and exactly once in the list
\* branch analysis is asked with.
UserMessageOnce ==
    \A w \in Sinks :
        LET n == loc[w].node
        IN OnlyTurnMessage(w) =>
            /\ pc[w] = "ns_llm" =>
                 /\ UserCopies(process_chat_messages(nodes, messages, n, Words(1)), n) = 1
                 /\ UserCopies(process_chat_analysis(nodes, messages, n, Words(1),
                                                     <<Chunk(1, "llm")>>), n) = 1
            /\ (pc[w] = "stream" /\ loc[w].n = 0 /\ loc[w].mode = "llm") =>
                 UserCopies(stream_chat_messages(nodes, messages, n), n) = 1
            /\ pc[w] = "analyze" =>
                 UserCopies(analysis_messages(nodes, BeforeReply(w), n, Words(1),
                                              loc[w].content), n) = 1

====
